---- MODULE Spec2Model ----
(***************************************************************************)
(* Model of sshmount's filesystem bridge: the bidirectional hash map       *)
(* (bi_hash_map.rs), the inode table built on it (inode.rs) and the        *)
(* table of open files (file_handle.rs) and the callbacks of Sshfs that    *)
(* use the two tables (ssh_filesystem.rs).                                 *)
(*                                                                         *)
(* Conventions                                                             *)
(*   Option<T>    : <<>> is None, <<v>> is Some(v).                        *)
(*   HashMap<K,V> : a function whose DOMAIN is the set of keys.            *)
(*   Path text    : a sequence of one-character strings.                   *)
(*   PathBuf      : the sequence of components of the text, which is what  *)
(*                  Eq and Hash of std::path::Path compare.                *)
(***************************************************************************)
EXTENDS Integers, Sequences, FiniteSets, TLC

VARIABLES
    bimap,      \* a BiHashMap<int, letter> exercised on its own
    inodes,     \* Inodes: [list |-> BiHashMap<u64, PathBuf>, next_inode |-> u64]
    last,       \* the last completed call: its name, arguments, result and pre-state
    issued,     \* inode values allocated by Inodes::add, in allocation order
    retired,    \* inode values whose binding was removed
    guard,      \* holder of Inodes.list's Mutex: <<>> or <<thread>>
    thr,        \* per thread: the position inside Inodes::add and its locals
    remote,     \* the tree behind the SFTP session: PathBuf -> kind of object
    fhandles,   \* Fhandles: [list |-> HashMap<u64, File>, next_handle |-> u64]
    data,       \* the bytes of the remote regular files: PathBuf -> bytes
    load,       \* the requests the kernel sends in this run: "tree" or "io"
    locks       \* holders of Fhandles.list's Mutex and of each open file's Mutex

vars == <<bimap, inodes, last, issued, retired, guard, thr, remote, fhandles, data, load,
          locks>>

\* the state only the Sshfs callbacks use
fsvars == <<remote, fhandles, data, load, locks>>

\* the state the Sshfs callbacks never use
tablevars == <<bimap, guard, thr>>

-----------------------------------------------------------------------------
(* Bounds of the model *)

\* largest value the inode counter may reach in the model
MaxInode == 4

\* number of threads calling Inodes::add or Fhandles::add_file concurrently
NThreads == 2

\* largest value the handle counter may reach in the model
MaxHandle == 3

\* largest SFTP status code and largest magnitude of a session-level error
\* code handed to the error conversion
MaxStatus == 24

MaxSessionCode == 48

\* longest command-line text parsed
MaxText == 4

\* number of files the callbacks open in one run
MaxOpen == 2

\* largest position of an open file and largest length of a remote file
MaxPos == 2

-----------------------------------------------------------------------------
(* Option<T> *)

None == <<>>

Some(v) == <<v>>

IsSome(o) == o # <<>>

Unwrap(o) == o[1]

-----------------------------------------------------------------------------
(* std::path::Path: equality and hashing go through components() *)

RootDir == <<"/">>

CurDir == <<".">>

\* the text between separators, empty pieces included
RECURSIVE SplitFrom(_, _, _)
SplitFrom(s, i, cur) ==
    IF i > Len(s) THEN <<cur>>
    ELSE IF s[i] = "/" THEN <<cur>> \o SplitFrom(s, i + 1, <<>>)
    ELSE SplitFrom(s, i + 1, Append(cur, s[i]))

HasRoot(raw) == Len(raw) > 0 /\ raw[1] = "/"

\* components() drops empty pieces and every "." except a leading one of
\* a relative path; a leading separator becomes the RootDir component
RECURSIVE KeepFrom(_, _, _)
KeepFrom(segs, k, root) ==
    IF k > Len(segs) THEN <<>>
    ELSE LET seg  == segs[k]
             drop == seg = <<>> \/ (seg = CurDir /\ ~(k = 1 /\ ~root))
         IN  (IF drop THEN <<>> ELSE <<seg>>) \o KeepFrom(segs, k + 1, root)

Components(raw) ==
    (IF HasRoot(raw) THEN <<RootDir>> ELSE <<>>)
        \o KeepFrom(SplitFrom(raw, 1, <<>>), 1, HasRoot(raw))

\* PathBuf::from(path.as_ref()), up to the equality the hash maps use
PathBuf_from(raw) == Components(raw)

\* the path texts the calls are made with: "", "t", "t/", "/t", "u", "t/."
PathTexts ==
    { <<>>, <<"t">>, <<"t", "/">>, <<"/", "t">>, <<"u">>, <<"t", "/", ".">> }

-----------------------------------------------------------------------------
(* std::collections::HashMap *)

EmptyMap == <<>>

\* no Mutex of the table of open files is held
NoLocks == [list |-> <<>>, file |-> EmptyMap]

HashMap_get(h, k) == IF k \in DOMAIN h THEN Some(h[k]) ELSE None

HashMap_remove(h, k) == [x \in (DOMAIN h) \ {k} |-> h[x]]

HashMap_insert(h, k, v) == [x \in (DOMAIN h) \cup {k} |-> IF x = k THEN v ELSE h[x]]

HashMap_len(h) == Cardinality(DOMAIN h)

-----------------------------------------------------------------------------
(* BiHashMap<L, R>: m = [left |-> HashMap<L, R>, right |-> HashMap<R, L>] *)

BiHashMap_new == [left |-> EmptyMap, right |-> EmptyMap]

\* insert_no_check recording the pair in the left-to-right map only
insert_no_check_left_only(m, l, r) ==
    [left  |-> HashMap_insert(m.left, l, r),
     right |-> m.right]

\* BiHashMap::insert_no_check
insert_no_check(m, l, r) ==
    [left  |-> HashMap_insert(m.left, l, r),
     right |-> HashMap_insert(m.right, r, l)]

NoOverwrite == <<"NoOverwrite">>

OverwriteRight(r) == <<"OverwriteRight", r>>

OverwriteLeft(l) == <<"OverwriteLeft", l>>

OverwriteBoth(p, q) == <<"OverwriteBoth", p, q>>

\* insert reporting a pair that is already in the map as OverwriteRight
insert_pair_as_right(m, l, r) ==
    LET old_left  == HashMap_get(m.right, r)
        old_right == HashMap_get(m.left, l)
        cleaned   ==
            [left  |-> [x \in DOMAIN m.left \ ({l} \cup {m.right[y] : y \in DOMAIN m.right \cap {r}}) |-> m.left[x]],
             right |-> [y \in DOMAIN m.right \ ({r} \cup {m.left[x] : x \in DOMAIN m.left \cap {l}}) |-> m.right[y]]]
        result ==
            CASE ~IsSome(old_left) /\ ~IsSome(old_right) -> NoOverwrite
              [] IsSome(old_left) /\ ~IsSome(old_right) -> OverwriteLeft(Unwrap(old_left))
              [] ~IsSome(old_left) /\ IsSome(old_right) -> OverwriteRight(Unwrap(old_right))
              [] IsSome(old_left) /\ IsSome(old_right) ->
                    IF old_right = Some(r)
                    THEN OverwriteRight(r)
                    ELSE OverwriteBoth(<<l, Unwrap(old_right)>>, <<Unwrap(old_left), r>>)
    IN  [map |-> insert_no_check(cleaned, l, r), result |-> result]

\* insert reporting only the pair of the left key when both keys were bound
insert_report_one(m, l, r) ==
    LET old_left  == HashMap_get(m.right, r)
        old_right == HashMap_get(m.left, l)
        cleaned   ==
            [left  |-> [x \in DOMAIN m.left \ ({l} \cup {m.right[y] : y \in DOMAIN m.right \cap {r}}) |-> m.left[x]],
             right |-> [y \in DOMAIN m.right \ ({r} \cup {m.left[x] : x \in DOMAIN m.left \cap {l}}) |-> m.right[y]]]
        result ==
            CASE ~IsSome(old_left) /\ ~IsSome(old_right) -> NoOverwrite
              [] IsSome(old_left) /\ ~IsSome(old_right) -> OverwriteLeft(Unwrap(old_left))
              [] IsSome(old_right) -> OverwriteRight(Unwrap(old_right))
    IN  [map |-> insert_no_check(cleaned, l, r), result |-> result]

\* insert forgetting the stale entry of the other direction
insert_stale(m, l, r) ==
    [map |-> insert_no_check(
                [left  |-> HashMap_remove(m.left, l),
                 right |-> HashMap_remove(m.right, r)], l, r),
     result |-> NoOverwrite]

\* BiHashMap::insert: the map after the call and the OverwriteResult
insert(m, l, r) ==
    LET old_left  == HashMap_get(m.right, r)
        right1    == HashMap_remove(m.right, r)
        old_right == HashMap_get(m.left, l)
        left1     == HashMap_remove(m.left, l)
        cleaned ==
            CASE ~IsSome(old_left) /\ ~IsSome(old_right) ->
                    [left |-> left1, right |-> right1]
              [] IsSome(old_left) /\ ~IsSome(old_right) ->
                    [left |-> HashMap_remove(left1, Unwrap(old_left)), right |-> right1]
              [] ~IsSome(old_left) /\ IsSome(old_right) ->
                    [left |-> left1, right |-> HashMap_remove(right1, Unwrap(old_right))]
              [] IsSome(old_left) /\ IsSome(old_right) ->
                    [left  |-> HashMap_remove(left1, Unwrap(old_left)),
                     right |-> HashMap_remove(right1, Unwrap(old_right))]
        result ==
            CASE ~IsSome(old_left) /\ ~IsSome(old_right) -> NoOverwrite
              [] IsSome(old_left) /\ ~IsSome(old_right) -> OverwriteLeft(Unwrap(old_left))
              [] ~IsSome(old_left) /\ IsSome(old_right) -> OverwriteRight(Unwrap(old_right))
              [] IsSome(old_left) /\ IsSome(old_right) ->
                    OverwriteBoth(<<l, Unwrap(old_right)>>, <<Unwrap(old_left), r>>)
    IN  [map |-> insert_no_check(cleaned, l, r), result |-> result]

contains_left(m, l) == l \in DOMAIN m.left

contains_right(m, r) == r \in DOMAIN m.right

\* insert_no_overwrite that looks at the left key only
insert_no_overwrite_left_only(m, l, r) ==
    IF contains_left(m, l)
    THEN [map |-> m, result |-> "Err"]
    ELSE [map |-> insert_no_check(m, l, r), result |-> "Ok"]

\* BiHashMap::insert_no_overwrite: Err(()) leaves the map as it is
insert_no_overwrite(m, l, r) ==
    IF contains_left(m, l) \/ contains_right(m, r)
    THEN [map |-> m, result |-> "Err"]
    ELSE [map |-> insert_no_check(m, l, r), result |-> "Ok"]

get_right(m, l) == HashMap_get(m.left, l)

get_left(m, r) == HashMap_get(m.right, r)

\* remove_left leaving the right-to-left entry behind
remove_left_half(m, l) ==
    [map |-> [left |-> HashMap_remove(m.left, l), right |-> m.right],
     result |-> HashMap_get(m.left, l)]

\* BiHashMap::remove_left
remove_left(m, l) ==
    LET result == HashMap_get(m.left, l)
        left1  == HashMap_remove(m.left, l)
    IN  [map |-> [left  |-> left1,
                  right |-> IF IsSome(result)
                            THEN HashMap_remove(m.right, Unwrap(result))
                            ELSE m.right],
         result |-> result]

\* remove_right leaving the left-to-right entry behind
remove_right_half(m, r) ==
    [map |-> [left |-> m.left, right |-> HashMap_remove(m.right, r)],
     result |-> HashMap_get(m.right, r)]

\* BiHashMap::remove_right
remove_right(m, r) ==
    LET result == HashMap_get(m.right, r)
        right1 == HashMap_remove(m.right, r)
    IN  [map |-> [left  |-> IF IsSome(result)
                            THEN HashMap_remove(m.left, Unwrap(result))
                            ELSE m.left,
                  right |-> right1],
         result |-> result]

-----------------------------------------------------------------------------
(* Inodes: s = [list |-> BiHashMap<u64, PathBuf>, next_inode |-> u64] *)

\* first value of the inode counter
FirstInode == 2

Inodes_new == [list |-> BiHashMap_new, next_inode |-> FirstInode]

\* add that allocates without looking the path up first
Inodes_add_always(s, raw) ==
    LET path == PathBuf_from(raw)
        res  == insert(s.list, s.next_inode, path)
    IN  [s     |-> [list |-> res.map, next_inode |-> s.next_inode + 1],
         ret   |-> s.next_inode,
         panic |-> FALSE]

\* add that takes the smallest inode value bound to no path
Inodes_add_reuse(s, raw) ==
    LET path  == PathBuf_from(raw)
        found == get_left(s.list, path)
        free  == CHOOSE i \in FirstInode..s.next_inode :
                    /\ i \notin DOMAIN s.list.left
                    /\ \A j \in FirstInode..(i - 1) : j \in DOMAIN s.list.left
    IN  IF IsSome(found)
        THEN [s |-> s, ret |-> Unwrap(found), panic |-> FALSE]
        ELSE [s     |-> [list |-> insert_no_check(s.list, free, path),
                         next_inode |-> IF free = s.next_inode
                                        THEN s.next_inode + 1 ELSE s.next_inode],
              ret   |-> free,
              panic |-> FALSE]

\* Inodes::add: the table after the call, the returned inode, and whether
\* the unreachable!() of the duplicate check was hit
Inodes_add(s, raw) ==
    LET path  == PathBuf_from(raw)
        found == get_left(s.list, path)
        inode == s.next_inode
        res   == insert_no_overwrite(s.list, inode, path)
    IN  IF IsSome(found)
        THEN [s |-> s, ret |-> Unwrap(found), panic |-> FALSE]
        ELSE [s     |-> [list |-> res.map, next_inode |-> inode + 1],
              ret   |-> inode,
              panic |-> res.result = "Err"]

Inodes_get_inode(s, raw) == get_left(s.list, PathBuf_from(raw))

Inodes_get_path(s, inode) == get_right(s.list, inode)

\* Inodes::del_inode
Inodes_del_inode(s, inode) ==
    LET res == remove_left(s.list, inode)
    IN  [s   |-> [list |-> res.map, next_inode |-> s.next_inode],
         ret |-> IF IsSome(res.result) THEN Some(inode) ELSE None]

\* Inodes::del_inode_with_path
Inodes_del_inode_with_path(s, raw) ==
    LET res == remove_right(s.list, PathBuf_from(raw))
    IN  [s   |-> [list |-> res.map, next_inode |-> s.next_inode],
         ret |-> res.result]

\* rename that binds new_path even when old_path is not registered
Inodes_rename_unguarded(s, old_raw, new_raw) ==
    LET old_path == PathBuf_from(old_raw)
        new_path == PathBuf_from(new_raw)
        found    == get_left(s.list, old_path)
        ino      == IF IsSome(found) THEN Unwrap(found) ELSE s.next_inode
    IN  [list       |-> insert(remove_left(s.list, ino).map, ino, new_path).map,
         next_inode |-> s.next_inode]

\* rename that allocates a fresh inode for new_path
Inodes_rename_fresh(s, old_raw, new_raw) ==
    LET old_path == PathBuf_from(old_raw)
        new_path == PathBuf_from(new_raw)
        found    == get_left(s.list, old_path)
    IN  IF ~IsSome(found) THEN s
        ELSE [list       |-> insert(remove_left(s.list, Unwrap(found)).map,
                                    s.next_inode, new_path).map,
              next_inode |-> s.next_inode + 1]

\* rename that leaves old_path bound next to new_path's previous inode
Inodes_rename_keep_old(s, old_raw, new_raw) ==
    LET old_path == PathBuf_from(old_raw)
        new_path == PathBuf_from(new_raw)
        found    == get_left(s.list, old_path)
    IN  IF ~IsSome(found) \/ contains_right(s.list, new_path) THEN s
        ELSE [list       |-> insert(remove_left(s.list, Unwrap(found)).map,
                                    Unwrap(found), new_path).map,
              next_inode |-> s.next_inode]

\* Inodes::rename: the table after the call
Inodes_rename(s, old_raw, new_raw) ==
    LET old_path == PathBuf_from(old_raw)
        new_path == PathBuf_from(new_raw)
        found    == get_left(s.list, old_path)
    IN  IF ~IsSome(found) THEN s
        ELSE LET ino     == Unwrap(found)
                 removed == remove_left(s.list, ino).map
             IN  [list       |-> insert(removed, ino, new_path).map,
                  next_inode |-> s.next_inode]

-----------------------------------------------------------------------------
(* Fhandles: h = [list |-> HashMap<u64, File>, next_handle |-> u64]; a     *)
(* File is the record [path, flags, pos] of an open ssh2::File             *)

Fhandles_new == [list |-> EmptyMap, next_handle |-> 0]

\* fetch_add that hands out the smallest handle value not in the list
Fhandles_fetch_reuse(h) ==
    LET free == CHOOSE i \in 0..h.next_handle :
                    /\ i \notin DOMAIN h.list
                    /\ \A j \in 0..(i - 1) : j \in DOMAIN h.list
    IN  [h   |-> [list |-> h.list,
                  next_handle |-> IF free = h.next_handle
                                  THEN h.next_handle + 1 ELSE h.next_handle],
         ret |-> free]

\* Fhandles::add_file, first statement: next_handle.fetch_add(1)
Fhandles_fetch_add(h) ==
    [h   |-> [list |-> h.list, next_handle |-> h.next_handle + 1],
     ret |-> h.next_handle]

\* Fhandles::add_file, second statement: list.lock().insert(handle, file)
Fhandles_insert(h, handle, file) ==
    [list |-> HashMap_insert(h.list, handle, file), next_handle |-> h.next_handle]

\* Fhandles::add_file called with no other call in between
Fhandles_add_file(h, file) ==
    LET fetched == Fhandles_fetch_add(h)
    IN  [h   |-> Fhandles_insert(fetched.h, fetched.ret, file),
         ret |-> fetched.ret]

Fhandles_get_file(h, fh) == HashMap_get(h.list, fh)

\* del_file that leaves the record in the list
Fhandles_del_file_kept(h, fh) == h

\* Fhandles::del_file
Fhandles_del_file(h, fh) ==
    [list |-> HashMap_remove(h.list, fh), next_handle |-> h.next_handle]

-----------------------------------------------------------------------------
(* Bookkeeping shared by the specifications *)

NoCall == [op |-> "none", args |-> <<>>, ret |-> <<>>, pre |-> <<>>]

Call(op, args, ret, pre) == [op |-> op, args |-> args, ret |-> ret, pre |-> pre]

\* inode values bound in table s
Bound(s) == DOMAIN s.list.left

Idle == [pc |-> "idle", path |-> <<>>, inode |-> 0, ret |-> None, waited |-> FALSE]

Threads == 1..NThreads

-----------------------------------------------------------------------------
(* Specification SpecBiMap: a BiHashMap<int, letter> under every sequence  *)
(* of insert, insert_no_overwrite, remove_left and remove_right            *)

Lefts == {1, 2, 3}

Rights == {"a", "b", "c"}

InitBiMap ==
    /\ bimap = BiHashMap_new
    /\ inodes = Inodes_new
    /\ last = NoCall
    /\ issued = <<>>
    /\ retired = {}
    /\ guard = None
    /\ thr = [t \in Threads |-> Idle]
    /\ remote = EmptyMap
    /\ fhandles = Fhandles_new
    /\ data = EmptyMap
    /\ load = "tree"
    /\ locks = NoLocks

BM_insert(l, r) ==
    LET res == insert(bimap, l, r)
    IN  /\ bimap' = res.map
        /\ last' = Call("insert", <<l, r>>, res.result, bimap)
        /\ UNCHANGED <<inodes, issued, retired, guard, thr, fsvars>>

BM_insert_no_overwrite(l, r) ==
    LET res == insert_no_overwrite(bimap, l, r)
    IN  /\ bimap' = res.map
        /\ last' = Call("insert_no_overwrite", <<l, r>>, res.result, bimap)
        /\ UNCHANGED <<inodes, issued, retired, guard, thr, fsvars>>

BM_remove_left(l) ==
    LET res == remove_left(bimap, l)
    IN  /\ bimap' = res.map
        /\ last' = Call("remove_left", <<l>>, res.result, bimap)
        /\ UNCHANGED <<inodes, issued, retired, guard, thr, fsvars>>

BM_remove_right(r) ==
    LET res == remove_right(bimap, r)
    IN  /\ bimap' = res.map
        /\ last' = Call("remove_right", <<r>>, res.result, bimap)
        /\ UNCHANGED <<inodes, issued, retired, guard, thr, fsvars>>

NextBiMap ==
    \/ \E l \in Lefts, r \in Rights : BM_insert(l, r)
    \/ \E l \in Lefts, r \in Rights : BM_insert_no_overwrite(l, r)
    \/ \E l \in Lefts : BM_remove_left(l)
    \/ \E r \in Rights : BM_remove_right(r)

SpecBiMap == InitBiMap /\ [][NextBiMap]_vars

-----------------------------------------------------------------------------
(* Specification SpecInodes: one Inodes value under every sequence of add, *)
(* del_inode, del_inode_with_path and rename                               *)

InitInodes ==
    /\ bimap = BiHashMap_new
    /\ inodes = Inodes_new
    /\ last = NoCall
    /\ issued = <<>>
    /\ retired = {}
    /\ guard = None
    /\ thr = [t \in Threads |-> Idle]
    /\ remote = EmptyMap
    /\ fhandles = Fhandles_new
    /\ data = EmptyMap
    /\ load = "tree"
    /\ locks = NoLocks

\* the bookkeeping of a call that takes table s to table s2
Track(s, s2) ==
    /\ issued' = issued \o [k \in 1..(s2.next_inode - s.next_inode) |-> s.next_inode + k - 1]
    /\ retired' = retired \cup (Bound(s) \ Bound(s2))

IN_add(raw) ==
    LET res == Inodes_add(inodes, raw)
    IN  /\ res.s.next_inode <= MaxInode + 1
        /\ ~res.panic
        /\ inodes' = res.s
        /\ last' = Call("add", <<raw>>, res.ret, inodes)
        /\ Track(inodes, res.s)
        /\ UNCHANGED <<bimap, guard, thr, fsvars>>

IN_del_inode(inode) ==
    LET res == Inodes_del_inode(inodes, inode)
    IN  /\ inodes' = res.s
        /\ last' = Call("del_inode", <<inode>>, res.ret, inodes)
        /\ Track(inodes, res.s)
        /\ UNCHANGED <<bimap, guard, thr, fsvars>>

IN_del_inode_with_path(raw) ==
    LET res == Inodes_del_inode_with_path(inodes, raw)
    IN  /\ inodes' = res.s
        /\ last' = Call("del_inode_with_path", <<raw>>, res.ret, inodes)
        /\ Track(inodes, res.s)
        /\ UNCHANGED <<bimap, guard, thr, fsvars>>

IN_rename(old_raw, new_raw) ==
    LET s2 == Inodes_rename(inodes, old_raw, new_raw)
    IN  /\ s2.next_inode <= MaxInode + 1
        /\ inodes' = s2
        /\ last' = Call("rename", <<old_raw, new_raw>>, <<>>, inodes)
        /\ Track(inodes, s2)
        /\ UNCHANGED <<bimap, guard, thr, fsvars>>

NextInodes ==
    \/ \E raw \in PathTexts : IN_add(raw)
    \/ \E inode \in 0..(MaxInode + 1) : IN_del_inode(inode)
    \/ \E raw \in PathTexts : IN_del_inode_with_path(raw)
    \/ \E old_raw \in PathTexts, new_raw \in PathTexts : IN_rename(old_raw, new_raw)

SpecInodes == InitInodes /\ [][NextInodes]_vars

-----------------------------------------------------------------------------
(* Specification SpecAdd: NThreads threads each call Inodes::add once, on   *)
(* one shared Inodes value, one step per statement of add                   *)

\* a Mutex that every caller may enter
Mutex_free_always(g) == TRUE

\* Mutex::lock returns only while no other guard is alive
Mutex_free(g) == g = None

InitAdd ==
    /\ bimap = BiHashMap_new
    /\ inodes = Inodes_new
    /\ last = NoCall
    /\ issued = <<>>
    /\ retired = {}
    /\ guard = None
    /\ thr = [t \in Threads |-> Idle]
    /\ remote = EmptyMap
    /\ fhandles = Fhandles_new
    /\ data = EmptyMap
    /\ load = "tree"
    /\ locks = NoLocks

\* the call is made; waited records that another call held the guard then
AD_call(t, raw) ==
    /\ thr[t].pc = "idle"
    /\ thr' = [thr EXCEPT ![t].pc = "lock", ![t].path = raw,
                          ![t].waited = IsSome(guard)]
    /\ UNCHANGED <<bimap, inodes, last, issued, retired, guard, fsvars>>

\* let mut list_guard = self.list.lock().unwrap();
AD_lock(t) ==
    /\ thr[t].pc = "lock"
    /\ Mutex_free(guard)
    /\ guard' = Some(t)
    /\ thr' = [thr EXCEPT ![t].pc = "match"]
    /\ UNCHANGED <<bimap, inodes, last, issued, retired, fsvars>>

\* match list_guard.get_left(&path): Some(i) returns *i and drops the guard
AD_match(t) ==
    /\ thr[t].pc = "match"
    /\ LET found == get_left(inodes.list, PathBuf_from(thr[t].path))
       IN  IF IsSome(found)
           THEN /\ thr' = [thr EXCEPT ![t].pc = "done", ![t].ret = found]
                /\ guard' = None
           ELSE /\ thr' = [thr EXCEPT ![t].pc = "fetch"]
                /\ guard' = guard
    /\ UNCHANGED <<bimap, inodes, last, issued, retired, fsvars>>

\* let inode = self.next_inode.fetch_add(1, Ordering::AcqRel);
AD_fetch_add(t) ==
    /\ thr[t].pc = "fetch"
    /\ thr' = [thr EXCEPT ![t].pc = "insert", ![t].inode = inodes.next_inode]
    /\ inodes' = [inodes EXCEPT !.next_inode = inodes.next_inode + 1]
    /\ issued' = Append(issued, inodes.next_inode)
    /\ UNCHANGED <<bimap, last, retired, guard, fsvars>>

\* insert_no_overwrite(inode, path): Err is unreachable!(), which panics
\* with the guard held; Ok returns inode and drops the guard
AD_insert(t) ==
    /\ thr[t].pc = "insert"
    /\ LET res == insert_no_overwrite(inodes.list, thr[t].inode, PathBuf_from(thr[t].path))
       IN  IF res.result = "Err"
           THEN /\ thr' = [thr EXCEPT ![t].pc = "panic"]
                /\ UNCHANGED <<inodes, guard>>
           ELSE /\ thr' = [thr EXCEPT ![t].pc = "done", ![t].ret = Some(thr[t].inode)]
                /\ inodes' = [inodes EXCEPT !.list = res.map]
                /\ guard' = None
    /\ UNCHANGED <<bimap, last, issued, retired, fsvars>>

NextAdd ==
    \/ \E t \in Threads, raw \in PathTexts : AD_call(t, raw)
    \/ \E t \in Threads : AD_lock(t)
    \/ \E t \in Threads : AD_match(t)
    \/ \E t \in Threads : AD_fetch_add(t)
    \/ \E t \in Threads : AD_insert(t)

SpecAdd == InitAdd /\ [][NextAdd]_vars

-----------------------------------------------------------------------------
(* Specification SpecHandles: NThreads callers of Fhandles::add_file and   *)
(* del_file; the counter step and the locked insert of add_file are two    *)
(* steps, so calls interleave between them                                 *)

\* an ssh2::File just opened on path with the given SFTP open flags
File(path, flags) == [path |-> path, flags |-> flags, pos |-> 0]

HandleFiles == {File(<<"a">>, {"READ"}), File(<<"b">>, {"WRITE"})}

HandleArgs == 0..MaxHandle

HIdle == [pc |-> "idle", file |-> None, handle |-> 0, ret |-> None]

InitHandles ==
    /\ bimap = BiHashMap_new
    /\ inodes = Inodes_new
    /\ last = NoCall
    /\ issued = <<>>
    /\ retired = {}
    /\ guard = None
    /\ thr = [t \in Threads |-> HIdle]
    /\ remote = EmptyMap
    /\ fhandles = Fhandles_new
    /\ data = EmptyMap
    /\ load = "io"
    /\ locks = NoLocks

\* let handle = self.next_handle.fetch_add(1, Ordering::AcqRel);
HT_fetch_add(t, file) ==
    /\ thr[t].pc = "idle"
    /\ fhandles.next_handle < MaxHandle
    /\ LET fetched == Fhandles_fetch_add(fhandles)
       IN  /\ fhandles' = fetched.h
           /\ thr' = [thr EXCEPT ![t] = [pc |-> "fetched", file |-> Some(file),
                                         handle |-> fetched.ret, ret |-> None]]
           /\ issued' = Append(issued, fetched.ret)
    /\ UNCHANGED <<bimap, inodes, last, retired, guard, remote, data, load, locks>>

\* self.list.lock().unwrap().insert(handle, ...); handle
HT_insert(t) ==
    /\ thr[t].pc = "fetched"
    /\ fhandles' = Fhandles_insert(fhandles, thr[t].handle, Unwrap(thr[t].file))
    /\ thr' = [thr EXCEPT ![t] = [pc |-> "idle", file |-> None, handle |-> 0,
                                  ret |-> Some(thr[t].handle)]]
    /\ last' = Call("add_file", <<t>>, thr[t].handle, fhandles)
    /\ UNCHANGED <<bimap, inodes, issued, retired, guard, remote, data, load, locks>>

\* Fhandles::del_file
HT_del_file(t, fh) ==
    /\ thr[t].pc = "idle"
    /\ fhandles' = Fhandles_del_file(fhandles, fh)
    /\ retired' = retired \cup ({fh} \cap DOMAIN fhandles.list)
    /\ last' = Call("del_file", <<t, fh>>, None, fhandles)
    /\ UNCHANGED <<bimap, inodes, issued, guard, thr, remote, data, load, locks>>

NextHandles ==
    \/ \E t \in Threads, file \in HandleFiles : HT_fetch_add(t, file)
    \/ \E t \in Threads : HT_insert(t)
    \/ \E t \in Threads, fh \in HandleArgs : HT_del_file(t, fh)

SpecHandles == InitHandles /\ [][NextHandles]_vars

-----------------------------------------------------------------------------
(* Results, errors and bit words used by the callbacks *)

Ok(v) == [ok |-> TRUE, val |-> v]

Err(e) == [ok |-> FALSE, val |-> e]

\* ssh2::ErrorCode
SFTP(i) == [layer |-> "SFTP", code |-> i]

Session(c) == [layer |-> "Session", code |-> c]

EPERM == 1

ENOENT == 2

EIO == 5

ENXIO == 6

EBADF == 9

EACCES == 13

EEXIST == 17

ENODEV == 19

ENOTDIR == 20

ENOSPC == 28

ENAMETOOLONG == 36

ENOLCK == 37

ENOTEMPTY == 39

ELOOP == 40

ENETDOWN == 100

EDQUOT == 122

\* the conversion with the table cut after status 17
Error_from_ssh2_short(e) ==
    IF e.layer = "Session" THEN ENXIO
    ELSE CASE e.code \in {2, 10} -> ENOENT
           [] e.code \in {3, 12} -> EACCES
           [] e.code \in {5, 8, 16} -> ENODEV
           [] e.code \in {6, 13} -> ENXIO
           [] e.code = 7 -> ENETDOWN
           [] e.code = 9 -> EBADF
           [] e.code = 11 -> EEXIST
           [] e.code = 14 -> ENOSPC
           [] e.code = 15 -> EDQUOT
           [] e.code = 17 -> ENOLCK
           [] OTHER -> EIO

\* impl From<ssh2::Error> for Error
Error_from_ssh2(e) ==
    IF e.layer = "Session" THEN ENXIO
    ELSE CASE e.code = 2 -> ENOENT
           [] e.code = 3 -> EACCES
           [] e.code = 4 -> EIO
           [] e.code = 5 -> ENODEV
           [] e.code = 6 -> ENXIO
           [] e.code = 7 -> ENETDOWN
           [] e.code = 8 -> ENODEV
           [] e.code = 9 -> EBADF
           [] e.code = 10 -> ENOENT
           [] e.code = 11 -> EEXIST
           [] e.code = 12 -> EACCES
           [] e.code = 13 -> ENXIO
           [] e.code = 14 -> ENOSPC
           [] e.code = 15 -> EDQUOT
           [] e.code = 16 -> ENODEV
           [] e.code = 17 -> ENOLCK
           [] e.code = 18 -> ENOTEMPTY
           [] e.code = 19 -> ENOTDIR
           [] e.code = 20 -> ENAMETOOLONG
           [] e.code = 21 -> ELOOP
           [] OTHER -> EIO

\* a u32 word as the set of its one bits; the inputs are below 2^31
Bits(n) == {i \in 0..30 : (n \div (2 ^ i)) % 2 = 1}

RECURSIVE Word(_)
Word(b) ==
    IF b = {} THEN 0
    ELSE LET i == CHOOSE x \in b : TRUE IN (2 ^ i) + Word(b \ {i})

Not32(b) == (0..31) \ b

S_IFMT == 61440

S_IFREG == 32768

S_IFDIR == 16384

RENAME_NOREPLACE == 1

RENAME_EXCHANGE == 2

-----------------------------------------------------------------------------
(* Paths built by the callbacks *)

ParentDir == <<".", ".">>

\* path.as_ref(): the text of a PathBuf
RECURSIVE JoinFrom(_, _)
JoinFrom(path, k) ==
    IF k > Len(path) THEN <<>>
    ELSE path[k] \o (IF k < Len(path) THEN <<"/">> ELSE <<>>) \o JoinFrom(path, k + 1)

PathBuf_text(path) ==
    IF path # <<>> /\ path[1] = RootDir
    THEN <<"/">> \o JoinFrom(path, 2)
    ELSE JoinFrom(path, 1)

\* PathBuf::push: an absolute argument replaces the path, a relative one is
\* appended after a separator
PathBuf_push(path, raw) ==
    IF HasRoot(raw) \/ path = <<>> THEN Components(raw)
    ELSE path \o KeepFrom(SplitFrom(raw, 1, <<>>), 1, TRUE)

-----------------------------------------------------------------------------
(* The SFTP server behind the session.  rem maps the PathBuf of every       *)
(* existing object to its kind.  Every request can fail with an injected    *)
(* error (fault); without one the request has its file-system outcome.      *)

\* the path Sshfs::new is given
RootText == <<"/", "r">>

TopPath == PathBuf_from(RootText)

\* the leaf names the callbacks are called with
Names == {<<"a">>, <<"b">>}

\* the places the server lets an object exist at, in directory order
RemotePathSeq ==
    << PathBuf_push(TopPath, <<"a">>),
       PathBuf_push(PathBuf_push(TopPath, <<"a">>), <<"a">>),
       PathBuf_push(TopPath, <<"b">>),
       PathBuf_push(PathBuf_push(TopPath, <<"b">>), <<"a">>) >>

RemotePaths == {TopPath} \cup {RemotePathSeq[k] : k \in 1..Len(RemotePathSeq)}

\* ssh2::FileType, as far as the callbacks tell the values apart
Kinds == {"Directory", "RegularFile", "Symlink", "Other"}

ParentOf(p) == SubSeq(p, 1, Len(p) - 1)

IsUnder(p, dir) == Len(p) > Len(dir) /\ SubSeq(p, 1, Len(dir)) = dir

IsDir(rem, p) == p \in DOMAIN rem /\ rem[p] = "Directory"

WellFormed(rem) ==
    /\ IsDir(rem, TopPath)
    /\ \A p \in (DOMAIN rem) \ {TopPath} : IsDir(rem, ParentOf(p))

\* a tree given by the kinds at RemotePathSeq, "" where nothing exists
Tree(kinds) ==
    [p \in {TopPath} \cup {RemotePathSeq[k] : k \in {j \in 1..Len(kinds) : kinds[j] # ""}} |->
        IF p = TopPath THEN "Directory"
        ELSE kinds[CHOOSE k \in 1..Len(kinds) : RemotePathSeq[k] = p]]

\* the trees a mount starts on
RemoteTrees ==
    { Tree(<<"Directory", "RegularFile", "RegularFile", "">>),
      Tree(<<"Directory", "Other", "Symlink", "">>),
      Tree(<<"Other", "", "Directory", "Directory">>),
      Tree(<<"", "", "", "">>) }

\* the errors a request can fail with whatever the tree looks like
InjectedErrors == {SFTP(18), Session(-7)}

Faults == {None} \cup {Some(e) : e \in InjectedErrors}

CanCreate(rem, p) ==
    /\ p \in RemotePaths
    /\ p \notin DOMAIN rem
    /\ IsDir(rem, ParentOf(p))

Without(rem, gone) == [p \in (DOMAIN rem) \ gone |-> rem[p]]

With(rem, p, kind) == [q \in (DOMAIN rem) \cup {p} |-> IF q = p THEN kind ELSE rem[q]]

\* the outcome of a request: the result and the tree after it
Done(res, rem) == [res |-> res, remote |-> rem]

sftp_lstat(rem, path, fault) ==
    IF IsSome(fault) THEN Err(Unwrap(fault))
    ELSE IF path \in DOMAIN rem THEN Ok(rem[path])
    ELSE Err(SFTP(2))

\* the entries of a directory in directory order, "." and ".." left out, each
\* with the full path ssh2 builds for it
RECURSIVE ListFrom(_, _, _)
ListFrom(rem, dir, k) ==
    IF k > Len(RemotePathSeq) THEN <<>>
    ELSE LET p == RemotePathSeq[k]
         IN  (IF p \in DOMAIN rem /\ ParentOf(p) = dir
              THEN <<[path |-> p, kind |-> rem[p]]>> ELSE <<>>)
                 \o ListFrom(rem, dir, k + 1)

sftp_readdir(rem, path, fault) ==
    IF IsSome(fault) THEN Err(Unwrap(fault))
    ELSE IF IsDir(rem, path) THEN Ok(ListFrom(rem, path, 1))
    ELSE Err(SFTP(2))

sftp_readlink(rem, path, fault) ==
    IF IsSome(fault) THEN Err(Unwrap(fault))
    ELSE IF path \in DOMAIN rem /\ rem[path] = "Symlink" THEN Ok(<<"t">>)
    ELSE IF path \in DOMAIN rem THEN Err(SFTP(4))
    ELSE Err(SFTP(2))

sftp_unlink(rem, path, fault) ==
    IF IsSome(fault) THEN Done(Err(Unwrap(fault)), rem)
    ELSE IF path \notin DOMAIN rem THEN Done(Err(SFTP(2)), rem)
    ELSE IF IsDir(rem, path) THEN Done(Err(SFTP(4)), rem)
    ELSE Done(Ok(<<>>), Without(rem, {path}))

sftp_rmdir(rem, path, fault) ==
    IF IsSome(fault) THEN Done(Err(Unwrap(fault)), rem)
    ELSE IF ~IsDir(rem, path) THEN Done(Err(SFTP(2)), rem)
    ELSE IF \E q \in DOMAIN rem : IsUnder(q, path) THEN Done(Err(Session(-31)), rem)
    ELSE IF path = TopPath THEN Done(Err(SFTP(3)), rem)
    ELSE Done(Ok(<<>>), Without(rem, {path}))

sftp_mkdir(rem, path, fault) ==
    IF IsSome(fault) THEN Done(Err(Unwrap(fault)), rem)
    ELSE IF path \in DOMAIN rem THEN Done(Err(SFTP(4)), rem)
    ELSE IF ~IsDir(rem, ParentOf(path)) THEN Done(Err(SFTP(2)), rem)
    ELSE IF ~CanCreate(rem, path) THEN Done(Err(SFTP(3)), rem)
    ELSE Done(Ok(<<>>), With(rem, path, "Directory"))

\* open_mode(path, CREATE, mode, File): opens what is there or creates a
\* regular file
sftp_open_create(rem, path, fault) ==
    IF IsSome(fault) THEN Done(Err(Unwrap(fault)), rem)
    ELSE IF IsDir(rem, path) THEN Done(Err(SFTP(4)), rem)
    ELSE IF path \in DOMAIN rem THEN Done(Ok(<<>>), rem)
    ELSE IF ~IsDir(rem, ParentOf(path)) THEN Done(Err(SFTP(2)), rem)
    ELSE IF ~CanCreate(rem, path) THEN Done(Err(SFTP(3)), rem)
    ELSE Done(Ok(<<>>), With(rem, path, "RegularFile"))

sftp_symlink(rem, path, fault) ==
    IF IsSome(fault) THEN Done(Err(Unwrap(fault)), rem)
    ELSE IF path \in DOMAIN rem THEN Done(Err(SFTP(4)), rem)
    ELSE IF ~IsDir(rem, ParentOf(path)) THEN Done(Err(SFTP(2)), rem)
    ELSE IF ~CanCreate(rem, path) THEN Done(Err(SFTP(3)), rem)
    ELSE Done(Ok(<<>>), With(rem, path, "Symlink"))

sftp_setstat(rem, path, fault) ==
    IF IsSome(fault) THEN Err(Unwrap(fault))
    ELSE IF path \in DOMAIN rem THEN Ok(<<>>)
    ELSE Err(SFTP(2))

\* old_path and everything beneath it
Subtree(rem, p) == {q \in DOMAIN rem : q = p \/ IsUnder(q, p)}

Moved(q, old, new) == new \o SubSeq(q, Len(old) + 1, Len(q))

\* rename(old, new): a server either refuses an existing destination or
\* replaces it (replace); renaming a path onto itself changes nothing
sftp_rename(rem, old, new, replace, fault) ==
    IF IsSome(fault) THEN Done(Err(Unwrap(fault)), rem)
    ELSE IF old \notin DOMAIN rem THEN Done(Err(SFTP(2)), rem)
    ELSE IF new \in DOMAIN rem /\ ~replace THEN Done(Err(SFTP(4)), rem)
    ELSE IF new = old THEN Done(Ok(<<>>), rem)
    ELSE IF IsUnder(new, old) \/ IsUnder(old, new) THEN Done(Err(SFTP(4)), rem)
    ELSE IF ~IsDir(rem, ParentOf(new)) THEN Done(Err(SFTP(2)), rem)
    ELSE IF new \in DOMAIN rem
            /\ (IsDir(rem, new) # IsDir(rem, old) \/ Subtree(rem, new) # {new})
         THEN Done(Err(SFTP(4)), rem)
    ELSE IF \E q \in Subtree(rem, old) : Moved(q, old, new) \notin RemotePaths
         THEN Done(Err(SFTP(3)), rem)
    ELSE LET gone == Subtree(rem, old) \cup {new}
             kept == Without(rem, gone)
             here == {Moved(q, old, new) : q \in Subtree(rem, old)}
         IN  Done(Ok(<<>>),
                  [p \in (DOMAIN kept) \cup here |->
                      IF p \in here
                      THEN rem[old \o SubSeq(p, Len(new) + 1, Len(p))]
                      ELSE kept[p]])

-----------------------------------------------------------------------------
(* Sshfs: the callbacks.  Each is an operator from the inode table s, the   *)
(* remote tree rem, the arguments of the call and the faults of its remote  *)
(* requests to the table and tree after the call, the replies sent and the  *)
(* remote requests issued.                                                  *)

ReplyError(e) == <<"error", e>>

ReplyEntry(attr) == <<"entry", attr>>

ReplyAttr(attr) == <<"attr", attr>>

ReplyEmpty == <<"ok">>

ReplyData(d) == <<"data", d>>

ReplyDirectory(entries) == <<"dir", entries>>

Out(s, rem, replies, reqs) ==
    [inodes |-> s, remote |-> rem, replies |-> replies, reqs |-> reqs]

\* Sshfs::new: the inode table after construction
Sshfs_new(root) == Inodes_add(Inodes_new, root).s

\* Sshfs::conv_file_kind_ssh2fuser
conv_file_kind_ssh2fuser(filetype) ==
    IF filetype = "Other" THEN Err(EBADF) ELSE Ok(filetype)

\* Sshfs::getattr_from_ssh2: the table after the call and Ok(FileAttr) or
\* Err(errno); of FileAttr the inode and the kind are kept
getattr_from_ssh2(s, rem, path, fault) ==
    LET attr_ssh2 == sftp_lstat(rem, path, fault)
    IN  IF ~attr_ssh2.ok
        THEN [inodes |-> s, res |-> Err(Error_from_ssh2(attr_ssh2.val))]
        ELSE LET kind == conv_file_kind_ssh2fuser(attr_ssh2.val)
                 added == Inodes_add(s, PathBuf_text(path))
             IN  IF ~kind.ok
                 THEN [inodes |-> s, res |-> kind]
                 ELSE [inodes |-> added.s,
                       res |-> Ok([ino |-> added.ret, kind |-> kind.val])]

\* Sshfs::lookup
Sshfs_lookup(s, rem, parent, name, fault) ==
    LET found == Inodes_get_path(s, parent)
        path  == PathBuf_push(Unwrap(found), name)
        got   == getattr_from_ssh2(s, rem, path, fault)
    IN  IF ~IsSome(found) THEN Out(s, rem, <<ReplyError(ENOENT)>>, <<>>)
        ELSE Out(got.inodes, rem,
                 <<IF got.res.ok THEN ReplyEntry(got.res.val) ELSE ReplyError(got.res.val)>>,
                 << <<"lstat", path>> >>)

\* Sshfs::getattr
Sshfs_getattr(s, rem, ino, fault) ==
    LET found == Inodes_get_path(s, ino)
        path  == Unwrap(found)
        got   == getattr_from_ssh2(s, rem, path, fault)
    IN  IF ~IsSome(found) THEN Out(s, rem, <<ReplyError(ENOENT)>>, <<>>)
        ELSE Out(got.inodes, rem,
                 <<IF got.res.ok THEN ReplyAttr(got.res.val) ELSE ReplyError(got.res.val)>>,
                 << <<"lstat", path>> >>)

\* Path::file_name, or the whole path where there is none
EntryName(path) ==
    IF path = <<>> \/ path[Len(path)] \in {RootDir, CurDir, ParentDir}
    THEN PathBuf_text(path)
    ELSE path[Len(path)]

\* the loop of Sshfs::readdir from entry k of dir on; i is the offset given
\* to the next entry, cap the number of entries the reply buffer takes
RECURSIVE readdir_loop(_, _, _, _, _, _)
readdir_loop(s, dir, k, i, cap, emitted) ==
    IF k > Len(dir) THEN [inodes |-> s, replies |-> <<ReplyDirectory(emitted)>>]
    ELSE LET f       == dir[k]
             dots    == f.path = <<ParentDir>> \/ f.path = <<CurDir>>
             added   == Inodes_add(s, PathBuf_text(f.path))
             ino     == IF dots THEN 1 ELSE added.ret
             s2      == IF dots THEN s ELSE added.s
             kind    == conv_file_kind_ssh2fuser(f.kind)
         IN  IF ~kind.ok
             THEN [inodes |-> s2, replies |-> <<ReplyError(kind.val)>>]
             ELSE IF Len(emitted) >= cap
             THEN [inodes |-> s2, replies |-> <<ReplyDirectory(emitted)>>]
             ELSE readdir_loop(s2, dir, k + 1, i + 1, cap,
                     Append(emitted, [ino |-> ino, offset |-> i,
                                      kind |-> kind.val, name |-> EntryName(f.path)]))

\* readdir that gives each entry its own index as the offset to go on from
Sshfs_readdir_stale_offset(s, rem, ino, offset, cap, fault) ==
    LET found  == Inodes_get_path(s, ino)
        path   == Unwrap(found)
        listed == sftp_readdir(rem, path, fault)
        dir    == << [path |-> <<CurDir>>, kind |-> "Directory"],
                     [path |-> <<ParentDir>>, kind |-> "Directory"] >> \o listed.val
        looped == readdir_loop(s, dir, offset + 1, offset, cap, <<>>)
    IN  IF ~IsSome(found) THEN Out(s, rem, <<ReplyError(ENOENT)>>, <<>>)
        ELSE IF ~listed.ok
             THEN Out(s, rem, <<ReplyError(Error_from_ssh2(listed.val))>>,
                      << <<"readdir", path>> >>)
        ELSE Out(looped.inodes, rem, looped.replies, << <<"readdir", path>> >>)

\* Sshfs::readdir
Sshfs_readdir(s, rem, ino, offset, cap, fault) ==
    LET found  == Inodes_get_path(s, ino)
        path   == Unwrap(found)
        listed == sftp_readdir(rem, path, fault)
        dir    == << [path |-> <<CurDir>>, kind |-> "Directory"],
                     [path |-> <<ParentDir>>, kind |-> "Directory"] >> \o listed.val
        looped == readdir_loop(s, dir, offset + 1, offset + 1, cap, <<>>)
    IN  IF ~IsSome(found) THEN Out(s, rem, <<ReplyError(ENOENT)>>, <<>>)
        ELSE IF ~listed.ok
             THEN Out(s, rem, <<ReplyError(Error_from_ssh2(listed.val))>>,
                      << <<"readdir", path>> >>)
        ELSE Out(looped.inodes, rem, looped.replies, << <<"readdir", path>> >>)

\* Sshfs::readlink
Sshfs_readlink(s, rem, ino, fault) ==
    LET found == Inodes_get_path(s, ino)
        path  == Unwrap(found)
        link  == sftp_readlink(rem, path, fault)
    IN  IF ~IsSome(found) THEN Out(s, rem, <<ReplyError(ENOENT)>>, <<>>)
        ELSE Out(s, rem,
                 <<IF link.ok THEN ReplyData(link.val)
                   ELSE ReplyError(Error_from_ssh2(link.val))>>,
                 << <<"readlink", path>> >>)

\* Sshfs::mknod; the File that open_mode returns is a temporary of the
\* `if let Err(e)` and is dropped at the end of it, which closes its handle
\* before the lstat of getattr_from_ssh2
Sshfs_mknod(s, rem, parent, name, mode, umask, fault1, fault2) ==
    LET mode2    == Word(Bits(mode) \cap (Not32(Bits(umask)) \cup Bits(S_IFMT)))
        found    == Inodes_get_path(s, parent)
        new_name == PathBuf_push(Unwrap(found), name)
        opened   == sftp_open_create(rem, new_name, fault1)
        got      == getattr_from_ssh2(s, opened.remote, new_name, fault2)
        open_req == <<"open_mode", new_name, "CREATE", mode2>>
    IN  IF Word(Bits(mode) \cap Bits(S_IFMT)) # S_IFREG
        THEN Out(s, rem, <<ReplyError(EPERM)>>, <<>>)
        ELSE IF ~IsSome(found) THEN Out(s, rem, <<ReplyError(ENOENT)>>, <<>>)
        ELSE IF ~opened.res.ok
             THEN Out(s, rem, <<ReplyError(Error_from_ssh2(opened.res.val))>>, <<open_req>>)
        ELSE Out(got.inodes, opened.remote,
                 <<IF got.res.ok THEN ReplyEntry(got.res.val) ELSE ReplyError(got.res.val)>>,
                 <<open_req, <<"close", new_name>>, <<"lstat", new_name>> >>)

\* unlink that leaves the inode binding of the removed path in place
Sshfs_unlink_bound(s, rem, parent, name, fault) ==
    LET found   == Inodes_get_path(s, parent)
        path    == PathBuf_push(Unwrap(found), name)
        removed == sftp_unlink(rem, path, fault)
    IN  IF ~IsSome(found) THEN Out(s, rem, <<ReplyError(ENOENT)>>, <<>>)
        ELSE IF removed.res.ok
             THEN Out(s, removed.remote, <<ReplyEmpty>>, << <<"unlink", path>> >>)
        ELSE Out(s, rem, <<ReplyError(Error_from_ssh2(removed.res.val))>>,
                 << <<"unlink", path>> >>)

\* Sshfs::unlink
Sshfs_unlink(s, rem, parent, name, fault) ==
    LET found   == Inodes_get_path(s, parent)
        path    == PathBuf_push(Unwrap(found), name)
        removed == sftp_unlink(rem, path, fault)
    IN  IF ~IsSome(found) THEN Out(s, rem, <<ReplyError(ENOENT)>>, <<>>)
        ELSE IF removed.res.ok
             THEN Out(Inodes_del_inode_with_path(s, PathBuf_text(path)).s, removed.remote,
                      <<ReplyEmpty>>, << <<"unlink", path>> >>)
        ELSE Out(s, rem, <<ReplyError(Error_from_ssh2(removed.res.val))>>,
                 << <<"unlink", path>> >>)

\* mkdir that does not cut the mode down to the permission bits
Sshfs_mkdir_unmasked(s, rem, parent, name, mode, umask, fault1, fault2) ==
    LET found  == Inodes_get_path(s, parent)
        path   == PathBuf_push(Unwrap(found), name)
        mode2  == Word(Bits(mode) \cap Not32(Bits(umask)))
        made   == sftp_mkdir(rem, path, fault1)
        got    == getattr_from_ssh2(s, made.remote, path, fault2)
        mk_req == <<"mkdir", path, mode2>>
    IN  IF ~IsSome(found) THEN Out(s, rem, <<ReplyError(ENOENT)>>, <<>>)
        ELSE IF ~made.res.ok
             THEN Out(s, rem, <<ReplyError(Error_from_ssh2(made.res.val))>>, <<mk_req>>)
        ELSE Out(got.inodes, made.remote,
                 <<IF got.res.ok THEN ReplyEntry(got.res.val) ELSE ReplyError(got.res.val)>>,
                 <<mk_req, <<"lstat", path>> >>)

\* Sshfs::mkdir
Sshfs_mkdir(s, rem, parent, name, mode, umask, fault1, fault2) ==
    LET found  == Inodes_get_path(s, parent)
        path   == PathBuf_push(Unwrap(found), name)
        mode2  == Word((Bits(mode) \cap Not32(Bits(umask))) \cap Bits(511))
        made   == sftp_mkdir(rem, path, fault1)
        got    == getattr_from_ssh2(s, made.remote, path, fault2)
        mk_req == <<"mkdir", path, mode2>>
    IN  IF ~IsSome(found) THEN Out(s, rem, <<ReplyError(ENOENT)>>, <<>>)
        ELSE IF ~made.res.ok
             THEN Out(s, rem, <<ReplyError(Error_from_ssh2(made.res.val))>>, <<mk_req>>)
        ELSE Out(got.inodes, made.remote,
                 <<IF got.res.ok THEN ReplyEntry(got.res.val) ELSE ReplyError(got.res.val)>>,
                 <<mk_req, <<"lstat", path>> >>)

\* rmdir without the special case for session code -31
Sshfs_rmdir_plain(s, rem, parent, name, fault) ==
    LET found   == Inodes_get_path(s, parent)
        path    == PathBuf_push(Unwrap(found), name)
        removed == sftp_rmdir(rem, path, fault)
    IN  IF ~IsSome(found) THEN Out(s, rem, <<ReplyError(ENOENT)>>, <<>>)
        ELSE IF removed.res.ok
             THEN Out(Inodes_del_inode_with_path(s, PathBuf_text(path)).s, removed.remote,
                      <<ReplyEmpty>>, << <<"rmdir", path>> >>)
        ELSE Out(s, rem, <<ReplyError(Error_from_ssh2(removed.res.val))>>,
                 << <<"rmdir", path>> >>)

\* Sshfs::rmdir
Sshfs_rmdir(s, rem, parent, name, fault) ==
    LET found   == Inodes_get_path(s, parent)
        path    == PathBuf_push(Unwrap(found), name)
        removed == sftp_rmdir(rem, path, fault)
    IN  IF ~IsSome(found) THEN Out(s, rem, <<ReplyError(ENOENT)>>, <<>>)
        ELSE IF removed.res.ok
             THEN Out(Inodes_del_inode_with_path(s, PathBuf_text(path)).s, removed.remote,
                      <<ReplyEmpty>>, << <<"rmdir", path>> >>)
        ELSE Out(s, rem,
                 <<IF removed.res.val = Session(-31) THEN ReplyError(ENOTEMPTY)
                   ELSE ReplyError(Error_from_ssh2(removed.res.val))>>,
                 << <<"rmdir", path>> >>)

\* Sshfs::symlink
Sshfs_symlink(s, rem, parent, name, link, fault1, fault2) ==
    LET found   == Inodes_get_path(s, parent)
        target  == PathBuf_push(Unwrap(found), name)
        made    == sftp_symlink(rem, target, fault1)
        got     == getattr_from_ssh2(s, made.remote, target, fault2)
        sym_req == <<"symlink", link, target>>
    IN  IF ~IsSome(found) THEN Out(s, rem, <<ReplyError(ENOENT)>>, <<>>)
        ELSE IF ~made.res.ok
             THEN Out(s, rem, <<ReplyError(Error_from_ssh2(made.res.val))>>, <<sym_req>>)
        ELSE Out(got.inodes, made.remote,
                 <<IF got.res.ok THEN ReplyEntry(got.res.val) ELSE ReplyError(got.res.val)>>,
                 <<sym_req, <<"lstat", target>> >>)

\* conv_timeornow2systemtime(..).duration_since(UNIX_EPOCH)
\*     .unwrap_or_default().as_secs()
\* a time is <<"Now">> or <<"SpecificTime", seconds since the epoch>>
EpochSecs(time, now) ==
    LET t == IF time[1] = "Now" THEN now ELSE time[2]
    IN  IF t < 0 THEN 0 ELSE t

OptionMap(o, now) == IF IsSome(o) THEN Some(EpochSecs(Unwrap(o), now)) ELSE None

\* Sshfs::setattr; want = [mode, size, atime, mtime], each an Option
\* setattr that goes on to the lstat whatever setstat answered
Sshfs_setattr_blind(s, rem, ino, want, now, fault1, fault2) ==
    LET stat     == [size |-> want.size, uid |-> None, gid |-> None,
                     perm |-> want.mode,
                     atime |-> OptionMap(want.atime, now),
                     mtime |-> OptionMap(want.mtime, now)]
        found    == Inodes_get_path(s, ino)
        filename == Unwrap(found)
        got      == getattr_from_ssh2(s, rem, filename, fault2)
        set_req  == <<"setstat", filename, stat>>
    IN  IF ~IsSome(found) THEN Out(s, rem, <<ReplyError(ENOENT)>>, <<>>)
        ELSE Out(got.inodes, rem,
                 <<IF got.res.ok THEN ReplyAttr(got.res.val) ELSE ReplyError(got.res.val)>>,
                 <<set_req, <<"lstat", filename>> >>)

Sshfs_setattr(s, rem, ino, want, now, fault1, fault2) ==
    LET stat     == [size |-> want.size, uid |-> None, gid |-> None,
                     perm |-> want.mode,
                     atime |-> OptionMap(want.atime, now),
                     mtime |-> OptionMap(want.mtime, now)]
        found    == Inodes_get_path(s, ino)
        filename == Unwrap(found)
        set      == sftp_setstat(rem, filename, fault1)
        got      == getattr_from_ssh2(s, rem, filename, fault2)
        set_req  == <<"setstat", filename, stat>>
    IN  IF ~IsSome(found) THEN Out(s, rem, <<ReplyError(ENOENT)>>, <<>>)
        ELSE IF ~set.ok
             THEN Out(s, rem, <<ReplyError(Error_from_ssh2(set.val))>>, <<set_req>>)
        ELSE Out(got.inodes, rem,
                 <<IF got.res.ok THEN ReplyAttr(got.res.val) ELSE ReplyError(got.res.val)>>,
                 <<set_req, <<"lstat", filename>> >>)

\* rename that drops the binding of the destination before it is removed
Sshfs_rename_eager(s, rem, parent, name, newparent, newname, flags, replace, fault1, fault2, fault3) ==
    LET found1   == Inodes_get_path(s, parent)
        old_path == PathBuf_push(Unwrap(found1), name)
        found2   == Inodes_get_path(s, newparent)
        new_path == PathBuf_push(Unwrap(found2), newname)
        rename_flag == {"NATIVE"} \cup
                       (IF Bits(flags) \cap Bits(RENAME_EXCHANGE) # {}
                        THEN {"ATOMIC"} ELSE {})
        emulate  == Bits(flags) \cap Bits(RENAME_NOREPLACE) = {}
        stat     == sftp_lstat(rem, new_path, fault1)
        is_dir   == stat.val = "Directory"
        removed  == IF is_dir THEN sftp_rmdir(rem, new_path, fault2)
                    ELSE sftp_unlink(rem, new_path, fault2)
        rm_req   == <<IF is_dir THEN "rmdir" ELSE "unlink", new_path>>
        cleared  == emulate /\ stat.ok
        s1       == IF cleared
                    THEN Inodes_del_inode_with_path(s, PathBuf_text(new_path)).s
                    ELSE s
        rem1     == IF cleared THEN removed.remote ELSE rem
        reqs1    == IF ~emulate THEN <<>>
                    ELSE IF ~stat.ok THEN << <<"lstat", new_path>> >>
                    ELSE << <<"lstat", new_path>>, rm_req >>
        renamed  == sftp_rename(rem1, old_path, new_path, replace, fault3)
        ren_req  == <<"rename", old_path, new_path, rename_flag>>
    IN  IF ~IsSome(found1) \/ ~IsSome(found2)
        THEN Out(s, rem, <<ReplyError(ENOENT)>>, <<>>)
        ELSE IF cleared /\ ~removed.res.ok
             THEN Out(s1, rem, <<ReplyError(Error_from_ssh2(removed.res.val))>>, reqs1)
        ELSE IF renamed.res.ok
             THEN Out(Inodes_rename(s1, PathBuf_text(old_path), PathBuf_text(new_path)),
                      renamed.remote, <<ReplyEmpty>>, Append(reqs1, ren_req))
        ELSE Out(s1, rem1, <<ReplyError(Error_from_ssh2(renamed.res.val))>>,
                 Append(reqs1, ren_req))

\* rename that leaves the inode table as it is after the remote rename
Sshfs_rename_unrecorded(s, rem, parent, name, newparent, newname, flags, replace, fault1, fault2, fault3) ==
    LET found1   == Inodes_get_path(s, parent)
        old_path == PathBuf_push(Unwrap(found1), name)
        found2   == Inodes_get_path(s, newparent)
        new_path == PathBuf_push(Unwrap(found2), newname)
        renamed  == sftp_rename(rem, old_path, new_path, replace, fault3)
    IN  IF ~IsSome(found1) \/ ~IsSome(found2)
        THEN Out(s, rem, <<ReplyError(ENOENT)>>, <<>>)
        ELSE IF renamed.res.ok
             THEN Out(s, renamed.remote, <<ReplyEmpty>>,
                      << <<"rename", old_path, new_path>> >>)
        ELSE Out(s, rem, <<ReplyError(Error_from_ssh2(renamed.res.val))>>,
                 << <<"rename", old_path, new_path>> >>)

\* Sshfs::rename; replace is the server's treatment of an existing
\* destination
Sshfs_rename(s, rem, parent, name, newparent, newname, flags, replace, fault1, fault2, fault3) ==
    LET found1   == Inodes_get_path(s, parent)
        old_path == PathBuf_push(Unwrap(found1), name)
        found2   == Inodes_get_path(s, newparent)
        new_path == PathBuf_push(Unwrap(found2), newname)
        rename_flag == {"NATIVE"} \cup
                       (IF Bits(flags) \cap Bits(RENAME_EXCHANGE) # {}
                        THEN {"ATOMIC"} ELSE {})
        emulate  == Bits(flags) \cap Bits(RENAME_NOREPLACE) = {}
        stat     == sftp_lstat(rem, new_path, fault1)
        is_dir   == stat.val = "Directory"
        removed  == IF is_dir THEN sftp_rmdir(rem, new_path, fault2)
                    ELSE sftp_unlink(rem, new_path, fault2)
        rm_req   == <<IF is_dir THEN "rmdir" ELSE "unlink", new_path>>
        cleared  == emulate /\ stat.ok
        s1       == IF cleared
                    THEN Inodes_del_inode_with_path(s, PathBuf_text(new_path)).s
                    ELSE s
        rem1     == IF cleared THEN removed.remote ELSE rem
        reqs1    == IF ~emulate THEN <<>>
                    ELSE IF ~stat.ok THEN << <<"lstat", new_path>> >>
                    ELSE << <<"lstat", new_path>>, rm_req >>
        renamed  == sftp_rename(rem1, old_path, new_path, replace, fault3)
        ren_req  == <<"rename", old_path, new_path, rename_flag>>
    IN  IF ~IsSome(found1) \/ ~IsSome(found2)
        THEN Out(s, rem, <<ReplyError(ENOENT)>>, <<>>)
        ELSE IF cleared /\ ~removed.res.ok
             THEN Out(s, rem, <<ReplyError(Error_from_ssh2(removed.res.val))>>, reqs1)
        ELSE IF renamed.res.ok
             THEN Out(Inodes_rename(s1, PathBuf_text(old_path), PathBuf_text(new_path)),
                      renamed.remote, <<ReplyEmpty>>, Append(reqs1, ren_req))
        ELSE Out(s1, rem1, <<ReplyError(Error_from_ssh2(renamed.res.val))>>,
                 Append(reqs1, ren_req))

-----------------------------------------------------------------------------
(* The open files behind the SFTP session: ssh2::File as the callbacks see *)
(* it. A file object keeps its position locally; read and write move it.   *)

O_WRONLY == 1

O_RDWR == 2

O_CREAT == 64

O_EXCL == 128

O_TRUNC == 512

O_APPEND == 1024

SEEK_SET == 0

SEEK_CUR == 1

SEEK_END == 2

EINTR == 4

EWOULDBLOCK == 11

ENOMEM == 12

EINVAL == 22

EPIPE == 32

EILSEQ == 84

ENOTSUP == 95

EADDRINUSE == 98

EADDRNOTAVAIL == 99

ECONNABORTED == 103

ECONNRESET == 104

ENOTCONN == 107

ETIMEDOUT == 110

ECONNREFUSED == 111

\* libc::EOF
EOF == -1

\* impl From<std::io::Error> for Error, by std::io::ErrorKind
Error_from_io(kind) ==
    CASE kind = "NotFound"          -> ENOENT
      [] kind = "PermissionDenied"  -> EACCES
      [] kind = "ConnectionRefused" -> ECONNREFUSED
      [] kind = "ConnectionReset"   -> ECONNRESET
      [] kind = "ConnectionAborted" -> ECONNABORTED
      [] kind = "NotConnected"      -> ENOTCONN
      [] kind = "AddrInUse"         -> EADDRINUSE
      [] kind = "AddrNotAvailable"  -> EADDRNOTAVAIL
      [] kind = "BrokenPipe"        -> EPIPE
      [] kind = "AlreadyExists"     -> EEXIST
      [] kind = "WouldBlock"        -> EWOULDBLOCK
      [] kind = "InvalidInput"      -> EINVAL
      [] kind = "InvalidData"       -> EILSEQ
      [] kind = "TimedOut"          -> ETIMEDOUT
      [] kind = "WriteZero"         -> EIO
      [] kind = "Interrupted"       -> EINTR
      [] kind = "Unsupported"       -> ENOTSUP
      [] kind = "UnexpectedEof"     -> EOF
      [] kind = "OutOfMemory"       -> ENOMEM
      [] OTHER                      -> EIO

Min(a, b) == IF a < b THEN a ELSE b

\* the bytes of the regular file at p
Content(dat, p) == IF p \in DOMAIN dat THEN dat[p] ELSE <<>>

StoreContent(dat, p, bytes) ==
    [q \in (DOMAIN dat) \cup {p} |-> IF q = p THEN bytes ELSE dat[q]]

\* the outcome of sftp.open_mode(path, flags, 0o777, OpenType::File): the
\* result, the tree and the file contents after it
sftp_open_mode(rem, dat, path, flags, fault) ==
    IF IsSome(fault) THEN [res |-> Err(Unwrap(fault)), remote |-> rem, data |-> dat]
    ELSE IF path \in DOMAIN rem
    THEN IF rem[path] # "RegularFile" \/ {"CREATE", "EXCLUSIVE"} \subseteq flags
         THEN [res |-> Err(SFTP(4)), remote |-> rem, data |-> dat]
         ELSE [res |-> Ok(File(path, flags)), remote |-> rem,
               data |-> IF "TRUNCATE" \in flags
                        THEN StoreContent(dat, path, <<>>) ELSE dat]
    ELSE IF "CREATE" \in flags /\ CanCreate(rem, path)
    THEN [res |-> Ok(File(path, flags)), remote |-> With(rem, path, "RegularFile"),
          data |-> StoreContent(dat, path, <<>>)]
    ELSE [res |-> Err(SFTP(2)), remote |-> rem, data |-> dat]

\* File::seek; how is <<"Start", n>>, <<"Current", d>> or <<"End", d>>, and
\* End asks the server for the size of the file
File_seek(file, dat, how, fault) ==
    LET next == CASE how[1] = "Start"   -> how[2]
                  [] how[1] = "Current" -> file.pos + how[2]
                  [] how[1] = "End"     -> Len(Content(dat, file.path)) + how[2]
    IN  IF IsSome(fault) THEN [res |-> Err(Unwrap(fault)), file |-> file]
        ELSE [res |-> Ok(next), file |-> [file EXCEPT !.pos = next]]

\* File::read into a buffer of len bytes when the server hands over at most
\* chunk bytes at a time
File_read(file, dat, len, chunk) ==
    LET bytes == Content(dat, file.path)
        avail == IF Len(bytes) > file.pos THEN Len(bytes) - file.pos ELSE 0
        n     == Min(Min(chunk, len), avail)
    IN  IF "READ" \notin file.flags THEN [res |-> Err("Other"), file |-> file]
        ELSE [res |-> Ok(SubSeq(bytes, file.pos + 1, file.pos + n)),
              file |-> [file EXCEPT !.pos = file.pos + n]]

\* File::write of buf when the server takes at most chunk bytes at a time;
\* a file opened with APPEND is written at its end
File_write(file, dat, buf, chunk) ==
    LET bytes == Content(dat, file.path)
        at    == IF "APPEND" \in file.flags THEN Len(bytes) ELSE file.pos
        n     == Min(chunk, Len(buf))
        size  == IF at + n > Len(bytes) THEN at + n ELSE Len(bytes)
        after == [i \in 1..size |->
                    IF i > at /\ i <= at + n THEN buf[i - at]
                    ELSE IF i <= Len(bytes) THEN bytes[i] ELSE 0]
    IN  IF "WRITE" \notin file.flags
        THEN [res |-> Err("Other"), file |-> file, data |-> dat]
        ELSE [res |-> Ok(n), file |-> [file EXCEPT !.pos = file.pos + n],
              data |-> IF n = 0 THEN dat ELSE StoreContent(dat, file.path, after)]

-----------------------------------------------------------------------------
(* The callbacks of Sshfs that use the table of open files. Each returns   *)
(* the handle table, the tree and the file contents after the call, the    *)
(* replies made, the requests sent to the server, and whether the callback *)
(* has returned. A plan says how the file object answers during one call:  *)
(* seek is the failure of seek (or None), chunk the number of bytes the    *)
(* server moves per read or write, fail_at the number of the read or write *)
(* that fails with the io::ErrorKind kind (0: none fails).                 *)

ReplyOpened(fh, flags) == <<"opened", fh, flags>>

ReplyWritten(size) == <<"written", size>>

ReplyOffset(pos) == <<"offset", pos>>

IoOut(h, rem, dat, replies, reqs, returned) ==
    [fhandles |-> h, remote |-> rem, data |-> dat, replies |-> replies,
     reqs |-> reqs, returned |-> returned]

\* the file behind the Arc<Mutex<ssh2::File>> of handle fh after a call on it
Fhandles_store(h, fh, file) ==
    [list |-> [x \in DOMAIN h.list |-> IF x = fh THEN file ELSE h.list[x]],
     next_handle |-> h.next_handle]

\* the translation that tests O_RDWR before O_WRONLY
OpenFlags_from_rdwr_first(flags) ==
    LET has(bit) == Bits(flags) \cap Bits(bit) # {}
    IN  (IF has(O_RDWR) THEN {"READ", "WRITE"}
         ELSE IF has(O_WRONLY) THEN {"WRITE"}
         ELSE {"READ"})
        \cup (IF has(O_APPEND) THEN {"APPEND"} ELSE {})
        \cup (IF has(O_CREAT) THEN {"CREATE"} ELSE {})
        \cup (IF has(O_TRUNC) THEN {"TRUNCATE"} ELSE {})
        \cup (IF has(O_EXCL) THEN {"EXCLUSIVE"} ELSE {})

\* the OpenFlags Sshfs::open builds from the flag word of open(2)
OpenFlags_from(flags) ==
    LET has(bit) == Bits(flags) \cap Bits(bit) # {}
    IN  (IF has(O_WRONLY) THEN {"WRITE"}
         ELSE IF has(O_RDWR) THEN {"READ", "WRITE"}
         ELSE {"READ"})
        \cup (IF has(O_APPEND) THEN {"APPEND"} ELSE {})
        \cup (IF has(O_CREAT) THEN {"CREATE"} ELSE {})
        \cup (IF has(O_TRUNC) THEN {"TRUNCATE"} ELSE {})
        \cup (IF has(O_EXCL) THEN {"EXCLUSIVE"} ELSE {})

\* open replying EBADF for an inode that is not registered
Sshfs_open_ebadf(s, h, rem, dat, ino, flags, fault) ==
    LET found  == Inodes_get_path(s, ino)
        opened == sftp_open_mode(rem, dat, Unwrap(found), OpenFlags_from(flags), fault)
        added  == Fhandles_add_file(h, opened.res.val)
        req    == <<"open_mode", Unwrap(found), OpenFlags_from(flags), 511>>
    IN  IF ~IsSome(found)
        THEN IoOut(h, rem, dat, <<ReplyError(EBADF)>>, <<>>, TRUE)
        ELSE IF opened.res.ok
             THEN IoOut(added.h, opened.remote, opened.data,
                        <<ReplyOpened(added.ret, flags)>>, <<req>>, TRUE)
        ELSE IoOut(h, rem, dat, <<ReplyError(Error_from_ssh2(opened.res.val))>>,
                   <<req>>, TRUE)

\* Sshfs::open
Sshfs_open(s, h, rem, dat, ino, flags, fault) ==
    LET found      == Inodes_get_path(s, ino)
        file_name  == Unwrap(found)
        flags_ssh2 == OpenFlags_from(flags)
        opened     == sftp_open_mode(rem, dat, file_name, flags_ssh2, fault)
        added      == Fhandles_add_file(h, opened.res.val)
        open_req   == <<"open_mode", file_name, flags_ssh2, 511>>
    IN  IF ~IsSome(found)
        THEN IoOut(h, rem, dat, <<ReplyError(ENOENT)>>, <<>>, TRUE)
        ELSE IF opened.res.ok
             THEN IoOut(added.h, opened.remote, opened.data,
                        <<ReplyOpened(added.ret, flags)>>, <<open_req>>, TRUE)
        ELSE IoOut(h, rem, dat, <<ReplyError(Error_from_ssh2(opened.res.val))>>,
                   <<open_req>>, TRUE)

\* release that keeps the record of the handle
Sshfs_release_kept(h, rem, dat, fh) ==
    IoOut(h, rem, dat, <<ReplyEmpty>>, <<>>, TRUE)

\* Sshfs::release; dropping the record closes the remote file
Sshfs_release(h, rem, dat, fh) ==
    LET found == Fhandles_get_file(h, fh)
    IN  IoOut(Fhandles_del_file(h, fh), rem, dat, <<ReplyEmpty>>,
              IF IsSome(found) THEN << <<"close", Unwrap(found).path>> >> ELSE <<>>,
              TRUE)

\* the loop of Sshfs::read leaving after its first read
read_loop_once(file, dat, size, got, plan, k, reqs) ==
    IF Len(got) >= size
    THEN [file |-> file, replies |-> <<ReplyData(got)>>, reqs |-> reqs]
    ELSE LET req  == <<"read", file.path, size - Len(got)>>
             done == IF plan.fail_at = k
                     THEN [res |-> Err(plan.kind), file |-> file]
                     ELSE File_read(file, dat, size - Len(got), plan.chunk)
         IN  IF ~done.res.ok
             THEN [file |-> done.file,
                   replies |-> <<ReplyError(Error_from_io(done.res.val))>>,
                   reqs |-> Append(reqs, req)]
             ELSE [file |-> done.file, replies |-> <<ReplyData(got \o done.res.val)>>,
                   reqs |-> Append(reqs, req)]

\* the loop of Sshfs::read: got is buff[..read_size], k the number of the
\* next read
RECURSIVE read_loop(_, _, _, _, _, _, _)
read_loop(file, dat, size, got, plan, k, reqs) ==
    IF Len(got) >= size
    THEN [file |-> file, replies |-> <<ReplyData(got)>>, reqs |-> reqs]
    ELSE LET req  == <<"read", file.path, size - Len(got)>>
             done == IF plan.fail_at = k
                     THEN [res |-> Err(plan.kind), file |-> file]
                     ELSE File_read(file, dat, size - Len(got), plan.chunk)
         IN  IF ~done.res.ok
             THEN [file |-> done.file,
                   replies |-> <<ReplyError(Error_from_io(done.res.val))>>,
                   reqs |-> Append(reqs, req)]
             ELSE IF Len(done.res.val) = 0
             THEN [file |-> done.file, replies |-> <<ReplyData(got)>>,
                   reqs |-> Append(reqs, req)]
             ELSE read_loop(done.file, dat, size, got \o done.res.val, plan, k + 1,
                            Append(reqs, req))

\* Sshfs::read
Sshfs_read(h, rem, dat, fh, offset, size, plan) ==
    LET found  == Fhandles_get_file(h, fh)
        seeked == File_seek(Unwrap(found), dat, <<"Start", offset>>, plan.seek)
        looped == read_loop(seeked.file, dat, size, <<>>, plan, 1, <<>>)
    IN  IF ~IsSome(found)
        THEN IoOut(h, rem, dat, <<ReplyError(EINVAL)>>, <<>>, TRUE)
        ELSE IF ~seeked.res.ok
             THEN IoOut(h, rem, dat, <<ReplyError(Error_from_io(seeked.res.val))>>,
                        <<>>, TRUE)
        ELSE IoOut(Fhandles_store(h, fh, looped.file), rem, dat, looped.replies,
                   looped.reqs, TRUE)

\* the loop of Sshfs::write replying after its first write
write_loop_once(file, dat, buf, total, plan, k, reqs) ==
    IF buf = <<>>
    THEN [file |-> file, data |-> dat, replies |-> <<ReplyWritten(total)>>,
          reqs |-> reqs, returned |-> TRUE]
    ELSE LET req  == <<"write", file.path, buf>>
             done == IF plan.fail_at = k
                     THEN [res |-> Err(plan.kind), file |-> file, data |-> dat]
                     ELSE File_write(file, dat, buf, plan.chunk)
         IN  IF ~done.res.ok
             THEN [file |-> done.file, data |-> done.data,
                   replies |-> <<ReplyError(Error_from_io(done.res.val))>>,
                   reqs |-> Append(reqs, req), returned |-> TRUE]
             ELSE [file |-> done.file, data |-> done.data,
                   replies |-> <<ReplyWritten(total)>>,
                   reqs |-> Append(reqs, req), returned |-> TRUE]

\* the loop of Sshfs::write: buf is what is left of data, k the number of
\* the next write. When a write takes no byte and no later write fails the
\* loop is where it was before that write, and the callback has not
\* returned.
RECURSIVE write_loop(_, _, _, _, _, _, _)
write_loop(file, dat, buf, total, plan, k, reqs) ==
    IF buf = <<>>
    THEN [file |-> file, data |-> dat, replies |-> <<ReplyWritten(total)>>,
          reqs |-> reqs, returned |-> TRUE]
    ELSE LET req  == <<"write", file.path, buf>>
             done == IF plan.fail_at = k
                     THEN [res |-> Err(plan.kind), file |-> file, data |-> dat]
                     ELSE File_write(file, dat, buf, plan.chunk)
         IN  IF ~done.res.ok
             THEN [file |-> done.file, data |-> done.data,
                   replies |-> <<ReplyError(Error_from_io(done.res.val))>>,
                   reqs |-> Append(reqs, req), returned |-> TRUE]
             ELSE IF done.res.val = 0 /\ plan.fail_at <= k
             THEN [file |-> done.file, data |-> done.data, replies |-> <<>>,
                   reqs |-> Append(reqs, req), returned |-> FALSE]
             ELSE write_loop(done.file, done.data,
                             SubSeq(buf, done.res.val + 1, Len(buf)), total, plan,
                             k + 1, Append(reqs, req))

\* Sshfs::write
Sshfs_write(h, rem, dat, fh, offset, bytes, plan) ==
    LET found  == Fhandles_get_file(h, fh)
        seeked == File_seek(Unwrap(found), dat, <<"Start", offset>>, plan.seek)
        looped == write_loop(seeked.file, dat, bytes, Len(bytes), plan, 1, <<>>)
    IN  IF ~IsSome(found)
        THEN IoOut(h, rem, dat, <<ReplyError(EINVAL)>>, <<>>, TRUE)
        ELSE IF ~seeked.res.ok
             THEN IoOut(h, rem, dat, <<ReplyError(Error_from_io(seeked.res.val))>>,
                        <<>>, TRUE)
        ELSE IoOut(Fhandles_store(h, fh, looped.file), rem, looped.data,
                   looped.replies, looped.reqs, looped.returned)

\* lseek that looks the handle up before it looks at whence
Sshfs_lseek_handle_first(h, rem, dat, fh, offset, whence, fault) ==
    LET seek_from == CASE whence = SEEK_SET -> <<"Start", offset>>
                       [] whence = SEEK_CUR -> <<"Current", offset>>
                       [] whence = SEEK_END -> <<"End", offset>>
        found  == Fhandles_get_file(h, fh)
        seeked == File_seek(Unwrap(found), dat, seek_from, fault)
        reqs   == IF whence = SEEK_END
                  THEN << <<"fstat", Unwrap(found).path>> >> ELSE <<>>
    IN  IF ~IsSome(found)
        THEN IoOut(h, rem, dat, <<ReplyError(EBADF)>>, <<>>, TRUE)
        ELSE IF whence \notin {SEEK_SET, SEEK_CUR, SEEK_END}
             THEN IoOut(h, rem, dat, <<ReplyError(EINVAL)>>, <<>>, TRUE)
        ELSE IF ~seeked.res.ok
             THEN IoOut(h, rem, dat, <<ReplyError(Error_from_io(seeked.res.val))>>,
                        reqs, TRUE)
        ELSE IoOut(Fhandles_store(h, fh, seeked.file), rem, dat,
                   <<ReplyOffset(seeked.res.val)>>, reqs, TRUE)

\* Sshfs::lseek
Sshfs_lseek(h, rem, dat, fh, offset, whence, fault) ==
    LET seek_from == CASE whence = SEEK_SET -> <<"Start", offset>>
                       [] whence = SEEK_CUR -> <<"Current", offset>>
                       [] whence = SEEK_END -> <<"End", offset>>
        found  == Fhandles_get_file(h, fh)
        seeked == File_seek(Unwrap(found), dat, seek_from, fault)
        reqs   == IF whence = SEEK_END
                  THEN << <<"fstat", Unwrap(found).path>> >> ELSE <<>>
    IN  IF whence \notin {SEEK_SET, SEEK_CUR, SEEK_END}
        THEN IoOut(h, rem, dat, <<ReplyError(EINVAL)>>, <<>>, TRUE)
        ELSE IF ~IsSome(found)
             THEN IoOut(h, rem, dat, <<ReplyError(EBADF)>>, <<>>, TRUE)
        ELSE IF ~seeked.res.ok
             THEN IoOut(h, rem, dat, <<ReplyError(Error_from_io(seeked.res.val))>>,
                        reqs, TRUE)
        ELSE IoOut(Fhandles_store(h, fh, seeked.file), rem, dat,
                   <<ReplyOffset(seeked.res.val)>>, reqs, TRUE)

-----------------------------------------------------------------------------
(* Specification SpecFs: a mounted Sshfs under every sequence of callbacks  *)
(* that read or change the inode table, over every remote tree and every    *)
(* outcome of the remote requests                                           *)

FsCall(op, args, out) ==
    [op |-> op, args |-> args, ret |-> out.replies, reqs |-> out.reqs,
     pre |-> [inodes |-> inodes, remote |-> remote, fhandles |-> fhandles,
              data |-> data],
     returned |-> TRUE]

\* the inode arguments of the callbacks: the kernel's root inode 1 and the
\* first values add issues
InodeArgs == 1..4

\* the faults of a callback that issues two or three remote requests: at
\* most one request fails for a reason other than the state of the tree
Broken == Some(Session(-7))

FaultPlans2 == {<<None, None>>, <<Broken, None>>, <<None, Broken>>,
                <<Some(SFTP(18)), None>>, <<None, Some(SFTP(18))>>}

FaultPlans3 == {<<None, None, None>>, <<Broken, None, None>>,
                <<None, Broken, None>>, <<None, None, Broken>>}

Offsets == 0..4

ReplyCapacities == {1, 3, 5}

\* S_IFREG | 0o644, S_IFIFO | 0o644, S_IFDIR | 0o755, 0o755
NodeModes == {33188, 4516}

DirModes == {16877, 493}

\* 0o022, 0o077
Umasks == {18, 63}

Flags == {0, RENAME_NOREPLACE, RENAME_EXCHANGE}

SetattrArgs ==
    { [mode |-> Some(420), size |-> None, atime |-> None, mtime |-> None],
      [mode |-> None, size |-> Some(0), atime |-> Some(<<"Now">>),
       mtime |-> Some(<<"SpecificTime", 7>>)],
      [mode |-> None, size |-> None, atime |-> Some(<<"SpecificTime", -5>>),
       mtime |-> Some(<<"Now">>)] }

ClockSecs == {9}

InitFs ==
    /\ bimap = BiHashMap_new
    /\ inodes = Sshfs_new(RootText)
    /\ last = NoCall
    /\ issued = <<FirstInode>>
    /\ retired = {}
    /\ guard = None
    /\ thr = [t \in Threads |-> Idle]
    /\ remote \in RemoteTrees
    /\ fhandles = Fhandles_new
    /\ data = EmptyMap
    /\ load = "tree"
    /\ locks = NoLocks

\* no call is waiting for the session loop to take the next request
Quiet == last = NoCall

\* the session loop is free in a run whose kernel sends the callbacks of the
\* tree, and in a run whose kernel sends the callbacks of open files
QuietTree == Quiet /\ load = "tree"

QuietIo == Quiet /\ load = "io"

\* the callback's effect on the state; the session loop hands over one
\* request at a time
Apply(op, args, out) ==
    /\ Quiet
    /\ out.inodes.next_inode <= MaxInode + 1
    /\ inodes' = out.inodes
    /\ remote' = out.remote
    /\ last' = FsCall(op, args, out)
    /\ Track(inodes, out.inodes)
    /\ UNCHANGED <<tablevars, fhandles, data, load, locks>>

FS_lookup(parent, name, fault) ==
    Apply("lookup", <<parent, name>>, Sshfs_lookup(inodes, remote, parent, name, fault))

FS_getattr(ino, fault) ==
    Apply("getattr", <<ino>>, Sshfs_getattr(inodes, remote, ino, fault))

FS_readdir(ino, offset, cap, fault) ==
    Apply("readdir", <<ino, offset, cap>>,
          Sshfs_readdir(inodes, remote, ino, offset, cap, fault))

FS_readlink(ino, fault) ==
    Apply("readlink", <<ino>>, Sshfs_readlink(inodes, remote, ino, fault))

FS_mknod(parent, name, mode, umask, fault1, fault2) ==
    Apply("mknod", <<parent, name, mode, umask>>,
          Sshfs_mknod(inodes, remote, parent, name, mode, umask, fault1, fault2))

FS_unlink(parent, name, fault) ==
    Apply("unlink", <<parent, name>>, Sshfs_unlink(inodes, remote, parent, name, fault))

FS_mkdir(parent, name, mode, umask, fault1, fault2) ==
    Apply("mkdir", <<parent, name, mode, umask>>,
          Sshfs_mkdir(inodes, remote, parent, name, mode, umask, fault1, fault2))

FS_rmdir(parent, name, fault) ==
    Apply("rmdir", <<parent, name>>, Sshfs_rmdir(inodes, remote, parent, name, fault))

FS_symlink(parent, name, link, fault1, fault2) ==
    Apply("symlink", <<parent, name, link>>,
          Sshfs_symlink(inodes, remote, parent, name, link, fault1, fault2))

FS_setattr(ino, want, now, fault1, fault2) ==
    Apply("setattr", <<ino, want>>,
          Sshfs_setattr(inodes, remote, ino, want, now, fault1, fault2))

FS_rename(parent, name, newparent, newname, flags, replace, fault1, fault2, fault3) ==
    Apply("rename", <<parent, name, newparent, newname, flags>>,
          Sshfs_rename(inodes, remote, parent, name, newparent, newname, flags,
                       replace, fault1, fault2, fault3))

\* the session loop takes the next request once the callback has returned:
\* the record of the call is dropped
FS_next_request ==
    /\ last # NoCall
    /\ last.returned
    /\ last' = NoCall
    /\ UNCHANGED <<inodes, issued, retired, fsvars, tablevars>>

NextFs ==
    \/ QuietTree /\ \E parent \in InodeArgs, name \in Names, fault \in Faults :
          FS_lookup(parent, name, fault)
    \/ QuietTree /\ \E ino \in InodeArgs, fault \in Faults : FS_getattr(ino, fault)
    \/ QuietTree /\ \E ino \in InodeArgs, offset \in Offsets, cap \in ReplyCapacities, fault \in Faults :
          FS_readdir(ino, offset, cap, fault)
    \/ QuietTree /\ \E ino \in InodeArgs, fault \in Faults : FS_readlink(ino, fault)
    \/ QuietTree /\ \E parent \in InodeArgs, name \in Names, mode \in NodeModes, umask \in Umasks,
          plan \in FaultPlans2 :
          FS_mknod(parent, name, mode, umask, plan[1], plan[2])
    \/ QuietTree /\ \E parent \in InodeArgs, name \in Names, fault \in Faults :
          FS_unlink(parent, name, fault)
    \/ QuietTree /\ \E parent \in InodeArgs, name \in Names, mode \in DirModes, umask \in Umasks,
          plan \in FaultPlans2 :
          FS_mkdir(parent, name, mode, umask, plan[1], plan[2])
    \/ QuietTree /\ \E parent \in InodeArgs, name \in Names, fault \in Faults :
          FS_rmdir(parent, name, fault)
    \/ QuietTree /\ \E parent \in InodeArgs, name \in Names, plan \in FaultPlans2 :
          FS_symlink(parent, name, <<"t">>, plan[1], plan[2])
    \/ QuietTree /\ \E ino \in InodeArgs, want \in SetattrArgs, now \in ClockSecs, plan \in FaultPlans2 :
          FS_setattr(ino, want, now, plan[1], plan[2])
    \/ QuietTree /\ \E parent \in InodeArgs, name \in Names, newparent \in InodeArgs, newname \in Names,
          flags \in Flags, replace \in BOOLEAN, plan \in FaultPlans3 :
          FS_rename(parent, name, newparent, newname, flags, replace,
                    plan[1], plan[2], plan[3])
    \/ FS_next_request

SpecFs == InitFs /\ [][NextFs]_vars

-----------------------------------------------------------------------------
(* Specification SpecIo: a mounted Sshfs whose kernel sends lookup and the *)
(* callbacks of open files (open, release, read, write, lseek), over one   *)
(* remote file and every answer of its file object                         *)

IoCall(op, args, out) ==
    [op |-> op, args |-> args, ret |-> out.replies, reqs |-> out.reqs,
     pre |-> [inodes |-> inodes, remote |-> remote, fhandles |-> fhandles,
              data |-> data],
     returned |-> out.returned]

\* the tree and the file contents a run with open files starts on
IoTree == Tree(<<"RegularFile", "", "", "">>)

IoData == [p \in {RemotePathSeq[1]} |-> <<1, 2>>]

\* O_RDONLY, O_WRONLY | O_RDWR (the access mode Linux keeps for ioctl only),
\* O_WRONLY | O_APPEND, O_RDWR | O_CREAT | O_TRUNC
OpenFlagWords == {0, 3, 1025, 578}

HandleNumbers == 0..2

FileOffsets == 0..2

ReadSizes == {0, 1, 3}

WriteData == {<<3>>, <<3, 3>>}

\* SEEK_SET, SEEK_CUR, SEEK_END and a value that is none of them
Whences == {0, 1, 2, 3}

IoFaults == {None, Some("Other"), Some("UnexpectedEof")}

NoFault(chunk) == [seek |-> None, chunk |-> chunk, fail_at |-> 0, kind |-> "Other"]

ReadPlans ==
    { NoFault(1), NoFault(2),
      [seek |-> Some("Other"), chunk |-> 1, fail_at |-> 0, kind |-> "Other"],
      [seek |-> None, chunk |-> 1, fail_at |-> 1, kind |-> "TimedOut"],
      [seek |-> None, chunk |-> 1, fail_at |-> 2, kind |-> "UnexpectedEof"] }

WritePlans ==
    ReadPlans \cup
    { NoFault(0),
      [seek |-> None, chunk |-> 0, fail_at |-> 2, kind |-> "WriteZero"] }

InitIo ==
    /\ bimap = BiHashMap_new
    /\ inodes = Sshfs_new(RootText)
    /\ last = NoCall
    /\ issued = <<FirstInode>>
    /\ retired = {}
    /\ guard = None
    /\ thr = [t \in Threads |-> Idle]
    /\ remote = IoTree
    /\ fhandles = Fhandles_new
    /\ data = IoData
    /\ load = "io"
    /\ locks = NoLocks

\* the callback's effect on the state; the session loop hands over one
\* request at a time
ApplyIo(op, args, out) ==
    /\ Quiet
    /\ out.fhandles.next_handle <= MaxOpen
    /\ \A fh \in DOMAIN out.fhandles.list : out.fhandles.list[fh].pos \in 0..MaxPos
    /\ \A p \in DOMAIN out.data : Len(out.data[p]) <= MaxPos
    /\ fhandles' = out.fhandles
    /\ remote' = out.remote
    /\ data' = out.data
    /\ last' = IoCall(op, args, out)
    /\ UNCHANGED <<inodes, issued, retired, tablevars, load, locks>>

FS_open(ino, flags, fault) ==
    ApplyIo("open", <<ino, flags>>,
            Sshfs_open(inodes, fhandles, remote, data, ino, flags, fault))

FS_release(fh) ==
    ApplyIo("release", <<fh>>, Sshfs_release(fhandles, remote, data, fh))

FS_read(fh, offset, size, plan) ==
    ApplyIo("read", <<fh, offset, size>>,
            Sshfs_read(fhandles, remote, data, fh, offset, size, plan))

FS_write(fh, offset, bytes, plan) ==
    ApplyIo("write", <<fh, offset, bytes>>,
            Sshfs_write(fhandles, remote, data, fh, offset, bytes, plan))

FS_lseek(fh, offset, whence, fault) ==
    ApplyIo("lseek", <<fh, offset, whence>>,
            Sshfs_lseek(fhandles, remote, data, fh, offset, whence, fault))

NextIo ==
    \/ QuietIo /\ \E parent \in InodeArgs, name \in Names, fault \in Faults :
          FS_lookup(parent, name, fault)
    \/ QuietIo /\ \E ino \in InodeArgs, flags \in OpenFlagWords, fault \in Faults :
          FS_open(ino, flags, fault)
    \/ QuietIo /\ \E fh \in HandleNumbers : FS_release(fh)
    \/ QuietIo /\ \E fh \in HandleNumbers, offset \in FileOffsets, size \in ReadSizes,
          plan \in ReadPlans :
          FS_read(fh, offset, size, plan)
    \/ QuietIo /\ \E fh \in HandleNumbers, offset \in FileOffsets, bytes \in WriteData,
          plan \in WritePlans :
          FS_write(fh, offset, bytes, plan)
    \/ QuietIo /\ \E fh \in HandleNumbers, offset \in FileOffsets, whence \in Whences,
          fault \in IoFaults :
          FS_lseek(fh, offset, whence, fault)
    \/ FS_next_request

SpecIo == InitIo /\ [][NextIo]_vars

\* SpecIo with a session loop that goes on: a callback that can return does
\* return, and the next request is taken when there is one
SpecIoLive == SpecIo /\ WF_vars(NextIo)

-----------------------------------------------------------------------------
(* Specification SpecSshfs: a mounted Sshfs under all sixteen callbacks;   *)
(* a run is one of SpecFs or one of SpecIo                                 *)

InitSshfs == InitFs \/ InitIo

NextSshfs == NextFs \/ NextIo

SpecSshfs == InitSshfs /\ [][NextSshfs]_vars

-----------------------------------------------------------------------------
(* Specification SpecErr: the two conversions into Error, applied to every *)
(* error value in the bound; last holds the conversion made                *)

\* ssh2::ErrorCode: SFTP(i32) and Session(i32)
Ssh2Errors ==
    {SFTP(i) : i \in -2..MaxStatus} \cup {Session(-c) : c \in 1..MaxSessionCode}

\* std::io::ErrorKind
ErrorKinds ==
    {"NotFound", "PermissionDenied", "ConnectionRefused", "ConnectionReset",
     "HostUnreachable", "NetworkUnreachable", "ConnectionAborted", "NotConnected",
     "AddrInUse", "AddrNotAvailable", "NetworkDown", "BrokenPipe", "AlreadyExists",
     "WouldBlock", "NotADirectory", "IsADirectory", "DirectoryNotEmpty",
     "ReadOnlyFilesystem", "StaleNetworkFileHandle", "InvalidInput", "InvalidData",
     "TimedOut", "WriteZero", "StorageFull", "NotSeekable", "QuotaExceeded",
     "FileTooLarge", "ResourceBusy", "ExecutableFileBusy", "Deadlock",
     "CrossesDevices", "TooManyLinks", "InvalidFilename", "ArgumentListTooLong",
     "Interrupted", "Unsupported", "UnexpectedEof", "OutOfMemory", "Other",
     "Uncategorized"}

Converted(op, arg, eno) ==
    [op |-> op, args |-> <<arg>>, ret |-> <<eno>>, reqs |-> <<>>, pre |-> <<>>,
     returned |-> TRUE]

InitErr ==
    /\ bimap = BiHashMap_new
    /\ inodes = Inodes_new
    /\ last = NoCall
    /\ issued = <<>>
    /\ retired = {}
    /\ guard = None
    /\ thr = [t \in Threads |-> Idle]
    /\ remote = EmptyMap
    /\ fhandles = Fhandles_new
    /\ data = EmptyMap
    /\ load = "err"
    /\ locks = NoLocks

ERR_from_ssh2(e) ==
    /\ last' = Converted("from_ssh2", e, Error_from_ssh2(e))
    /\ UNCHANGED <<inodes, issued, retired, fsvars, tablevars>>

ERR_from_io(kind) ==
    /\ last' = Converted("from_io", kind, Error_from_io(kind))
    /\ UNCHANGED <<inodes, issued, retired, fsvars, tablevars>>

NextErr ==
    \/ \E e \in Ssh2Errors : ERR_from_ssh2(e)
    \/ \E kind \in ErrorKinds : ERR_from_io(kind)

SpecErr == InitErr /\ [][NextErr]_vars

-----------------------------------------------------------------------------
(* Specification SpecLock: the callbacks entered by NThreads threads at    *)
(* once, followed through the Mutexes they take and the SFTP requests they *)
(* send. A callback is the sequence of its steps:                          *)
(*   "ino"    a method of Inodes, under the guard of Inodes.list           *)
(*   "req"    a request of the SFTP session and its answer                 *)
(*   "fetch"  next_handle.fetch_add(1)                                     *)
(*   "add", "get", "del"  a statement under the guard of Fhandles.list     *)
(*   "lock"   file_mutex.lock()                                            *)
(*   "seek"   file.seek(SeekFrom::Start(..)), which moves the local cursor *)
(*   "io"     file.read, file.write or the fstat of a seek from the end    *)

\* the steps of read with the record's guard dropped after the lookup
Program_unlocked(op) ==
    CASE op \in {"lookup", "getattr"} -> <<"ino", "req", "ino">>
      [] op = "readdir" -> <<"ino", "req", "ino", "ino">>
      [] op = "readlink" -> <<"ino", "req">>
      [] op = "open" -> <<"ino", "req", "fetch", "add">>
      [] op = "release" -> <<"del">>
      [] op \in {"read", "write"} -> <<"get", "seek", "io">>
      [] op = "lseek" -> <<"get", "seek", "io">>
      [] op = "mknod" -> <<"ino", "req", "req", "req", "ino">>
      [] op \in {"mkdir", "symlink"} -> <<"ino", "req", "req", "ino">>
      [] op \in {"unlink", "rmdir"} -> <<"ino", "req", "ino">>
      [] op = "setattr" -> <<"ino", "req", "req", "ino">>
      [] op = "rename" -> <<"ino", "ino", "req", "req", "ino", "req", "ino">>

\* the steps of each callback on its longest path, the body of the loop of
\* read and of write written once: Follows sends the loop back to it
Program(op) ==
    CASE op \in {"lookup", "getattr"} -> <<"ino", "req", "ino">>
      [] op = "readdir" -> <<"ino", "req", "ino", "ino">>
      [] op = "readlink" -> <<"ino", "req">>
      [] op = "open" -> <<"ino", "req", "fetch", "add">>
      [] op = "release" -> <<"del">>
      [] op \in {"read", "write"} -> <<"get", "lock", "seek", "io">>
      [] op = "lseek" -> <<"get", "lock", "seek", "io">>
      [] op = "mknod" -> <<"ino", "req", "req", "req", "ino">>
      [] op \in {"mkdir", "symlink"} -> <<"ino", "req", "req", "ino">>
      [] op \in {"unlink", "rmdir"} -> <<"ino", "req", "ino">>
      [] op = "setattr" -> <<"ino", "req", "req", "ino">>
      [] op = "rename" -> <<"ino", "ino", "req", "req", "ino", "req", "ino">>

Callbacks ==
    {"lookup", "getattr", "readdir", "readlink", "open", "release", "read", "write",
     "lseek", "mknod", "unlink", "mkdir", "rmdir", "symlink", "setattr", "rename"}

\* the handle a callback is called with, 0 for the callbacks that take none
ArgsOf(op) ==
    IF op \in {"release", "read", "write", "lseek"} THEN HandleNumbers ELSE {0}

\* a thread outside every callback
LIdle == [pc |-> "idle", op |-> "none", arg |-> 0, k |-> 0, file |-> None, handle |-> 0]

\* the step thread t is at
Kind(t) ==
    IF thr[t].pc \in {"step", "in", "sent"} THEN Program(thr[t].op)[thr[t].k] ELSE "none"

\* the steps that can follow step k of a callback once it is done, 0 for
\* the reply and the end of the callback: rename with RENAME_NOREPLACE goes
\* from its second get_path to the remote rename; read of size 0, write of
\* no data and lseek from the start or the current position reply after
\* the seek; after a request of the loop of read or of write comes the next
\* request of the loop, as long as bytes are missing, or the reply; readdir
\* adds the entries from offset on, which may be none
Follows(op, k) ==
    LET next == IF k < Len(Program(op)) THEN {k + 1} ELSE {0}
    IN  CASE op = "rename" /\ k = 2 -> {3, 6}
          [] op \in {"read", "write"} /\ Program(op)[k] = "io" -> {k, 0}
          [] op \in {"read", "write", "lseek"} /\ Program(op)[k] = "seek" ->
                next \cup {0}
          [] op = "readdir" /\ k >= 2 -> next \cup {0}
          [] OTHER -> next

\* thread t after its step: at one of the steps that follow, or at the end
\* of the callback
Advance(t, rec) ==
    {IF j = 0 THEN [rec EXCEPT !.pc = "return"] ELSE [rec EXCEPT !.pc = "step", !.k = j] :
        j \in Follows(rec.op, rec.k)}

\* thread t after a request of its callback failed: the lstat of rename on
\* new_path is `if let Ok(stat)`, past which the remote rename is sent; the
\* close sent by the drop of the File of mknod has no result; every other
\* failure is replied and ends the callback
Failed(t, rec) ==
    IF rec.op = "rename" /\ rec.k = 3 THEN {[rec EXCEPT !.pc = "step", !.k = 6]}
    ELSE IF rec.op = "mknod" /\ rec.k = 3 THEN Advance(t, rec)
    ELSE {[rec EXCEPT !.pc = "return"]}

\* the threads other than t that hold a clone of the Arc of file fh
Clones(fh, t) == {u \in Threads \ {t} : thr[u].file = Some(fh)}

InitLock ==
    /\ bimap = BiHashMap_new
    /\ inodes = Inodes_new
    /\ last = NoCall
    /\ issued = <<>>
    /\ retired = {}
    /\ guard = None
    /\ thr = [t \in Threads |-> LIdle]
    /\ remote = EmptyMap
    /\ fhandles = Fhandles_new
    /\ data = EmptyMap
    /\ load = "lock"
    /\ locks = NoLocks

\* the kernel hands a request to a worker thread; lseek with a whence it
\* does not know and mknod of anything but a regular file reply their error
\* before the first lock
LK_call(t, op, arg) ==
    /\ thr[t].pc = "idle"
    /\ op = "open" =>
          fhandles.next_handle + Cardinality({u \in Threads : thr[u].op = "open"}) < MaxOpen
    /\ \E pc \in (IF op \in {"lseek", "mknod"} THEN {"step", "return"} ELSE {"step"}) :
          thr' = [thr EXCEPT ![t] = [LIdle EXCEPT !.pc = pc, !.op = op, !.arg = arg, !.k = 1]]
    /\ UNCHANGED <<bimap, inodes, last, issued, retired, guard, fsvars>>

\* self.list.lock().unwrap() in a method of Inodes
LK_inodes_lock(t) ==
    /\ thr[t].pc = "step"
    /\ Kind(t) = "ino"
    /\ Mutex_free(guard)
    /\ guard' = Some(t)
    /\ thr' = [thr EXCEPT ![t].pc = "in"]
    /\ UNCHANGED <<bimap, inodes, last, issued, retired, fsvars>>

\* the method of Inodes returns and its guard is dropped; get_path that finds
\* nothing makes the callback reply ENOENT and return
LK_inodes_unlock(t, found) ==
    /\ thr[t].pc = "in"
    /\ Kind(t) = "ino"
    /\ guard' = None
    /\ \E n \in (IF found THEN Advance(t, thr[t]) ELSE {[thr[t] EXCEPT !.pc = "return"]}) :
          thr' = [thr EXCEPT ![t] = n]
    /\ UNCHANGED <<bimap, inodes, last, issued, retired, fsvars>>

\* a request is written to the SFTP session
LK_send(t) ==
    /\ thr[t].pc = "step"
    /\ Kind(t) \in {"req", "io"}
    /\ thr' = [thr EXCEPT ![t].pc = "sent"]
    /\ UNCHANGED <<bimap, inodes, last, issued, retired, guard, fsvars>>

\* the answer arrives; an error is replied and the callback returns, but
\* for the two requests whose failure the callback goes past
LK_recv(t, ok) ==
    /\ thr[t].pc = "sent"
    /\ \E n \in (IF ok THEN Advance(t, thr[t]) ELSE Failed(t, thr[t])) :
          thr' = [thr EXCEPT ![t] = n]
    /\ UNCHANGED <<bimap, inodes, last, issued, retired, guard, fsvars>>

\* Fhandles::add_file: let handle = self.next_handle.fetch_add(1, AcqRel)
LK_fetch_add(t) ==
    /\ thr[t].pc = "step"
    /\ Kind(t) = "fetch"
    /\ LET fetched == Fhandles_fetch_add(fhandles)
       IN  /\ fhandles' = fetched.h
           /\ \E n \in Advance(t, [thr[t] EXCEPT !.handle = fetched.ret]) : thr' = [thr EXCEPT ![t] = n]
    /\ UNCHANGED <<bimap, inodes, last, issued, retired, guard, remote, data, load, locks>>

\* self.list.lock().unwrap() in a method of Fhandles
LK_list_lock(t) ==
    /\ thr[t].pc = "step"
    /\ Kind(t) \in {"add", "get", "del"}
    /\ Mutex_free(locks.list)
    /\ locks' = [locks EXCEPT !.list = Some(t)]
    /\ thr' = [thr EXCEPT ![t].pc = "in"]
    /\ UNCHANGED <<bimap, inodes, last, issued, retired, guard, remote, fhandles, data, load>>

\* Fhandles::add_file: .insert(handle, Arc::new(Mutex::new(file))); the guard
\* is dropped at the end of the statement
LK_insert(t, file) ==
    /\ thr[t].pc = "in"
    /\ Kind(t) = "add"
    /\ fhandles' = Fhandles_insert(fhandles, thr[t].handle, file)
    /\ locks' = [list |-> None,
                 file |-> [fh \in (DOMAIN locks.file) \cup {thr[t].handle} |->
                             IF fh = thr[t].handle THEN None ELSE locks.file[fh]]]
    /\ \E n \in Advance(t, thr[t]) : thr' = [thr EXCEPT ![t] = n]
    /\ UNCHANGED <<bimap, inodes, last, issued, retired, guard, remote, data, load>>

\* Fhandles::get_file: .get_mut(&fh).cloned(); None makes the callback reply
\* its error and return
LK_get_file(t) ==
    /\ thr[t].pc = "in"
    /\ Kind(t) = "get"
    /\ locks' = [locks EXCEPT !.list = None]
    /\ \E n \in (IF IsSome(Fhandles_get_file(fhandles, thr[t].arg))
                  THEN Advance(t, [thr[t] EXCEPT !.file = Some(thr[t].arg)])
                  ELSE {[thr[t] EXCEPT !.pc = "return"]}) :
          thr' = [thr EXCEPT ![t] = n]
    /\ UNCHANGED <<bimap, inodes, last, issued, retired, guard, remote, fhandles, data, load>>

\* del_file whose removal closes the remote file whoever still holds a clone
LK_remove_at_once(t) ==
    /\ thr[t].pc = "in"
    /\ Kind(t) = "del"
    /\ fhandles' = Fhandles_del_file(fhandles, thr[t].arg)
    /\ IF IsSome(Fhandles_get_file(fhandles, thr[t].arg))
       THEN /\ thr' = [thr EXCEPT ![t].pc = "closing"]
            /\ locks' = locks
       ELSE /\ \E n \in Advance(t, thr[t]) : thr' = [thr EXCEPT ![t] = n]
            /\ locks' = [locks EXCEPT !.list = None]
    /\ UNCHANGED <<bimap, inodes, last, issued, retired, guard, remote, data, load>>

\* Fhandles::del_file: .remove(&fh); the removed Option<Arc<Mutex<File>>> is
\* the value of the statement and is dropped before the guard, which was
\* created first: when no callback holds a clone this drops the File, and
\* the drop of an ssh2::File closes the remote handle
LK_remove(t) ==
    /\ thr[t].pc = "in"
    /\ Kind(t) = "del"
    /\ fhandles' = Fhandles_del_file(fhandles, thr[t].arg)
    /\ IF IsSome(Fhandles_get_file(fhandles, thr[t].arg)) /\ Clones(thr[t].arg, t) = {}
       THEN /\ thr' = [thr EXCEPT ![t].pc = "closing"]
            /\ locks' = locks
       ELSE /\ \E n \in Advance(t, thr[t]) : thr' = [thr EXCEPT ![t] = n]
            /\ locks' = [locks EXCEPT !.list = None]
    /\ UNCHANGED <<bimap, inodes, last, issued, retired, guard, remote, data, load>>

\* the close is answered, the File is gone and the guard is dropped
LK_closed(t) ==
    /\ thr[t].pc = "closing"
    /\ locks' = [list |-> None,
                 file |-> [fh \in (DOMAIN locks.file) \ {thr[t].arg} |-> locks.file[fh]]]
    /\ \E n \in Advance(t, thr[t]) : thr' = [thr EXCEPT ![t] = n]
    /\ UNCHANGED <<bimap, inodes, last, issued, retired, guard, remote, fhandles, data, load>>

\* let file = &mut file_mutex.lock().unwrap(); the guard lives to the end of
\* the callback
LK_file_lock(t) ==
    /\ thr[t].pc = "step"
    /\ Kind(t) = "lock"
    /\ Mutex_free(locks.file[Unwrap(thr[t].file)])
    /\ locks' = [locks EXCEPT !.file[Unwrap(thr[t].file)] = Some(t)]
    /\ \E n \in Advance(t, thr[t]) : thr' = [thr EXCEPT ![t] = n]
    /\ UNCHANGED <<bimap, inodes, last, issued, retired, guard, remote, fhandles, data, load>>

\* file.seek(SeekFrom::Start(offset)): the cursor of the file object is set
LK_seek(t) ==
    /\ thr[t].pc = "step"
    /\ Kind(t) = "seek"
    /\ \E n \in Advance(t, thr[t]) : thr' = [thr EXCEPT ![t] = n]
    /\ UNCHANGED <<bimap, inodes, last, issued, retired, guard, fsvars>>

\* the callback has replied and returns: the guard of the record and then
\* the clone of its Arc are dropped; the last clone of a record that is no
\* longer in the list drops the File
LK_return(t) ==
    /\ thr[t].pc = "return"
    /\ LET mine == thr[t].file
           fh   == Unwrap(mine)
           freed == [locks EXCEPT !.file =
                        [f \in DOMAIN locks.file |->
                            IF locks.file[f] = Some(t) THEN None ELSE locks.file[f]]]
       IN  IF IsSome(mine) /\ ~IsSome(Fhandles_get_file(fhandles, fh)) /\ Clones(fh, t) = {}
           THEN /\ thr' = [thr EXCEPT ![t].pc = "dropping"]
                /\ locks' = freed
           ELSE /\ thr' = [thr EXCEPT ![t] = LIdle]
                /\ locks' = freed
    /\ UNCHANGED <<bimap, inodes, last, issued, retired, guard, remote, fhandles, data, load>>

\* the close sent by the drop of the File is answered
LK_dropped(t) ==
    /\ thr[t].pc = "dropping"
    /\ locks' = [locks EXCEPT !.file =
                    [fh \in (DOMAIN locks.file) \ {Unwrap(thr[t].file)} |-> locks.file[fh]]]
    /\ thr' = [thr EXCEPT ![t] = LIdle]
    /\ UNCHANGED <<bimap, inodes, last, issued, retired, guard, remote, fhandles, data, load>>

NextLock ==
    \/ \E t \in Threads, op \in Callbacks : \E arg \in ArgsOf(op) : LK_call(t, op, arg)
    \/ \E t \in Threads : LK_inodes_lock(t)
    \/ \E t \in Threads, found \in BOOLEAN : LK_inodes_unlock(t, found)
    \/ \E t \in Threads : LK_send(t)
    \/ \E t \in Threads, ok \in BOOLEAN : LK_recv(t, ok)
    \/ \E t \in Threads : LK_fetch_add(t)
    \/ \E t \in Threads : LK_list_lock(t)
    \/ \E t \in Threads, file \in HandleFiles : LK_insert(t, file)
    \/ \E t \in Threads : LK_get_file(t)
    \/ \E t \in Threads : LK_remove(t)
    \/ \E t \in Threads : LK_closed(t)
    \/ \E t \in Threads : LK_file_lock(t)
    \/ \E t \in Threads : LK_seek(t)
    \/ \E t \in Threads : LK_return(t)
    \/ \E t \in Threads : LK_dropped(t)

SpecLock == InitLock /\ [][NextLock]_vars

-----------------------------------------------------------------------------
(* The command line: RemoteName::from_str. A text is a sequence of         *)
(* characters; specification SpecRemoteName parses every text in the bound *)

\* the position of the first c in s, 0 when there is none
RECURSIVE FindFrom(_, _, _)
FindFrom(s, c, i) ==
    IF i > Len(s) THEN 0
    ELSE IF s[i] = c THEN i
    ELSE FindFrom(s, c, i + 1)

\* str::split_once(c): None, or Some of the texts before and after the
\* first c
split_once(s, c) ==
    LET i == FindFrom(s, c, 1)
    IN  IF i = 0 THEN None
        ELSE Some(<<SubSeq(s, 1, i - 1), SubSeq(s, i + 1, Len(s))>>)

\* str::trim: white space is removed at both ends
RECURSIVE trim(_)
trim(s) ==
    IF s = <<>> THEN s
    ELSE IF s[1] = " " THEN trim(Tail(s))
    ELSE IF s[Len(s)] = " " THEN trim(SubSeq(s, 1, Len(s) - 1))
    ELSE s

ErrorRemoteName == "The format of the host to connect to is \"[user@]host:[path]\"."

\* from_str that takes a host of white space for a host
RemoteName_from_str_blank_host(s) ==
    LET at       == split_once(s, "@")
        rest_str == IF IsSome(at) THEN Unwrap(at)[2] ELSE s
        user     == IF IsSome(at) /\ trim(Unwrap(at)[1]) # <<>>
                    THEN Some(trim(Unwrap(at)[1])) ELSE None
        colon    == split_once(rest_str, ":")
        h        == Unwrap(colon)[1]
        p        == Unwrap(colon)[2]
    IN  IF ~IsSome(colon) THEN Err(ErrorRemoteName)
        ELSE IF h = <<>> THEN Err(ErrorRemoteName)
        ELSE Ok([user |-> user, host |-> trim(h),
                 path |-> IF trim(p) # <<>> THEN Some(PathBuf_from(trim(p))) ELSE None])

\* impl FromStr for RemoteName
RemoteName_from_str(s) ==
    LET at       == split_once(s, "@")
        rest_str == IF IsSome(at) THEN Unwrap(at)[2] ELSE s
        user     == IF IsSome(at) /\ trim(Unwrap(at)[1]) # <<>>
                    THEN Some(trim(Unwrap(at)[1])) ELSE None
        colon    == split_once(rest_str, ":")
        h        == Unwrap(colon)[1]
        p        == Unwrap(colon)[2]
    IN  IF ~IsSome(colon) THEN Err(ErrorRemoteName)
        ELSE IF trim(h) = <<>> THEN Err(ErrorRemoteName)
        ELSE Ok([user |-> user, host |-> trim(h),
                 path |-> IF trim(p) # <<>> THEN Some(PathBuf_from(trim(p))) ELSE None])

\* the characters of the texts parsed
Chars == {" ", "@", ":", "h", "/"}

RECURSIVE TextsOf(_)
TextsOf(n) ==
    IF n = 0 THEN {<<>>}
    ELSE LET shorter == TextsOf(n - 1)
         IN  shorter \cup {Append(s, c) : s \in shorter, c \in Chars}

Texts == TextsOf(MaxText)

InitRemoteName ==
    /\ bimap = BiHashMap_new
    /\ inodes = Inodes_new
    /\ last = NoCall
    /\ issued = <<>>
    /\ retired = {}
    /\ guard = None
    /\ thr = [t \in Threads |-> Idle]
    /\ remote = EmptyMap
    /\ fhandles = Fhandles_new
    /\ data = EmptyMap
    /\ load = "cmdline"
    /\ locks = NoLocks

RN_from_str(s) ==
    /\ last' = [op |-> "from_str", args |-> <<s>>, ret |-> RemoteName_from_str(s),
                reqs |-> <<>>, pre |-> <<>>, returned |-> TRUE]
    /\ UNCHANGED <<inodes, issued, retired, fsvars, tablevars>>

NextRemoteName == \E s \in Texts : RN_from_str(s)

SpecRemoteName == InitRemoteName /\ [][NextRemoteName]_vars

-----------------------------------------------------------------------------
(* Claims about BiHashMap, checked under SpecBiMap *)

\* the pairs a map direction holds, as <<left, right>>
PairsOfLeft(m) == {<<l, m.left[l]>> : l \in DOMAIN m.left}

PairsOfRight(m) == {<<m.right[r], r>> : r \in DOMAIN m.right}

\* C9: after every sequence of insert, insert_no_overwrite, remove_left and
\* remove_right the two directions have the same size and are mutual
\* inverses: (l -> r) is in left iff (r -> l) is in right.
C9_MutualInverses ==
    /\ HashMap_len(bimap.left) = HashMap_len(bimap.right)
    /\ \A l \in Lefts, r \in Rights :
          (get_right(bimap, l) = Some(r)) <=> (get_left(bimap, r) = Some(l))

\* an insert has just replaced two distinct pairs and a third pair is
\* still in the map
C9_Witness ==
    /\ last.op = "insert"
    /\ last.ret[1] = "OverwriteBoth"
    /\ last.ret[2] # last.ret[3]
    /\ HashMap_len(bimap.left) = 2

\* C10: after insert(l, r), from any prior state, get_right(l) = Some(r)
\* and get_left(r) = Some(l), and every pair that contains neither l nor r
\* is as it was before the call.
C10_InsertPostcondition ==
    last.op = "insert" =>
        LET l == last.args[1]
            r == last.args[2]
            keep(S) == {p \in S : p[1] # l /\ p[2] # r}
        IN  /\ get_right(bimap, l) = Some(r)
            /\ get_left(bimap, r) = Some(l)
            /\ keep(PairsOfLeft(bimap)) = keep(PairsOfLeft(last.pre))
            /\ keep(PairsOfRight(bimap)) = keep(PairsOfRight(last.pre))

\* insert(l, r) was called while l and r were bound in two other pairs and
\* a pair with neither of them was in the map
C10_Witness ==
    /\ last.op = "insert"
    /\ IsSome(get_right(last.pre, last.args[1]))
    /\ IsSome(get_left(last.pre, last.args[2]))
    /\ get_right(last.pre, last.args[1]) # Some(last.args[2])
    /\ \E p \in PairsOfLeft(last.pre) : p[1] # last.args[1] /\ p[2] # last.args[2]

\* the pairs an OverwriteResult reports
Reported(res, l, r) ==
    CASE res[1] = "NoOverwrite"    -> {}
      [] res[1] = "OverwriteRight" -> {<<l, res[2]>>}
      [] res[1] = "OverwriteLeft"  -> {<<res[2], r>>}
      [] res[1] = "OverwriteBoth"  -> {res[2], res[3]}

\* the pairs of map m that contain l or r
Touching(m, l, r) == {p \in PairsOfLeft(m) \cup PairsOfRight(m) : p[1] = l \/ p[2] = r}

\* C11 as stated: insert(l, r) returns OverwriteBoth iff l and r were bound
\* before the call in two distinct pairs, and NoOverwrite iff neither l nor
\* r was bound.
C11_InsertResultAsStated ==
    last.op = "insert" =>
        LET l == last.args[1]
            r == last.args[2]
        IN  /\ (last.ret[1] = "OverwriteBoth") <=>
                    /\ contains_left(last.pre, l)
                    /\ contains_right(last.pre, r)
                    /\ get_right(last.pre, l) # Some(r)
            /\ (last.ret[1] = "NoOverwrite") <=>
                    (~contains_left(last.pre, l) /\ ~contains_right(last.pre, r))

\* C11: insert(l, r) returns OverwriteBoth iff l and r were both bound
\* before the call, in two pairs or in the one pair (l, r), which is then
\* reported twice; it returns NoOverwrite iff neither l nor r was bound.
C11_InsertResult ==
    last.op = "insert" =>
        LET l == last.args[1]
            r == last.args[2]
        IN  /\ (last.ret[1] = "OverwriteBoth") <=>
                    (contains_left(last.pre, l) /\ contains_right(last.pre, r))
            /\ (last.ret[1] = "NoOverwrite") <=>
                    (~contains_left(last.pre, l) /\ ~contains_right(last.pre, r))
            /\ (get_right(last.pre, l) = Some(r)) =>
                    last.ret = OverwriteBoth(<<l, r>>, <<l, r>>)

\* insert(l, r) was called on a map that already held the pair (l, r)
C11_Witness ==
    /\ last.op = "insert"
    /\ get_right(last.pre, last.args[1]) = Some(last.args[2])
    /\ last.ret[1] = "OverwriteBoth"

\* C12: insert(l, r) removes every previous pair containing l or r from
\* both directions and reports exactly those pairs: OverwriteRight(old_r)
\* when only l was bound, OverwriteLeft(old_l) when only r was bound,
\* OverwriteBoth((l, old_r), (old_l, r)) when both were; afterwards the map
\* holds the untouched pairs and (l, r).
C12_InsertReportsRemoved ==
    last.op = "insert" =>
        LET l == last.args[1]
            r == last.args[2]
            old_r == get_right(last.pre, l)
            old_l == get_left(last.pre, r)
            gone  == Touching(last.pre, l, r)
        IN  /\ Reported(last.ret, l, r) = gone
            /\ PairsOfLeft(bimap) = (PairsOfLeft(last.pre) \ gone) \cup {<<l, r>>}
            /\ PairsOfRight(bimap) = (PairsOfRight(last.pre) \ gone) \cup {<<l, r>>}
            /\ (IsSome(old_r) /\ ~IsSome(old_l)) => last.ret = OverwriteRight(Unwrap(old_r))
            /\ (~IsSome(old_r) /\ IsSome(old_l)) => last.ret = OverwriteLeft(Unwrap(old_l))
            /\ (IsSome(old_r) /\ IsSome(old_l)) =>
                    last.ret = OverwriteBoth(<<l, Unwrap(old_r)>>, <<Unwrap(old_l), r>>)

\* insert(l, r) has removed two distinct pairs, reported both, and left a
\* third pair in place
C12_Witness ==
    /\ last.op = "insert"
    /\ Cardinality(Touching(last.pre, last.args[1], last.args[2])) = 2
    /\ Cardinality(Reported(last.ret, last.args[1], last.args[2])) = 2
    /\ HashMap_len(last.pre.left) = 3
    /\ HashMap_len(bimap.left) = 2

\* C13: insert_no_overwrite(l, r) returns Err and leaves the map unchanged
\* whenever l is a left key or r is a right key; otherwise it returns Ok and
\* adds exactly the pair (l, r).
C13_InsertNoOverwrite ==
    last.op = "insert_no_overwrite" =>
        LET l == last.args[1]
            r == last.args[2]
        IN  IF contains_left(last.pre, l) \/ contains_right(last.pre, r)
            THEN last.ret = "Err" /\ bimap = last.pre
            ELSE /\ last.ret = "Ok"
                 /\ PairsOfLeft(bimap) = PairsOfLeft(last.pre) \cup {<<l, r>>}
                 /\ PairsOfRight(bimap) = PairsOfRight(last.pre) \cup {<<l, r>>}

\* insert_no_overwrite(l, r) was refused because r was a right key while l
\* was not a left key
C13_Witness ==
    /\ last.op = "insert_no_overwrite"
    /\ ~contains_left(last.pre, last.args[1])
    /\ contains_right(last.pre, last.args[2])
    /\ last.ret = "Err"
    /\ HashMap_len(bimap.left) = 2

\* C14: remove_left(l) (resp. remove_right(r)) returns the opposite-side
\* value of the pair containing the key and removes that pair from both
\* directions, so get_right(l) and get_left of the returned value are None
\* afterwards; when the key is absent it returns None and the map is
\* unchanged.
C14_Remove ==
    /\ last.op = "remove_left" =>
          LET l == last.args[1]
              old == get_right(last.pre, l)
          IN  /\ last.ret = old
              /\ get_right(bimap, l) = None
              /\ IF IsSome(old)
                 THEN /\ get_left(bimap, Unwrap(old)) = None
                      /\ PairsOfLeft(bimap) = PairsOfLeft(last.pre) \ {<<l, Unwrap(old)>>}
                      /\ PairsOfRight(bimap) = PairsOfRight(last.pre) \ {<<l, Unwrap(old)>>}
                 ELSE bimap = last.pre
    /\ last.op = "remove_right" =>
          LET r == last.args[1]
              old == get_left(last.pre, r)
          IN  /\ last.ret = old
              /\ get_left(bimap, r) = None
              /\ IF IsSome(old)
                 THEN /\ get_right(bimap, Unwrap(old)) = None
                      /\ PairsOfLeft(bimap) = PairsOfLeft(last.pre) \ {<<Unwrap(old), r>>}
                      /\ PairsOfRight(bimap) = PairsOfRight(last.pre) \ {<<Unwrap(old), r>>}
                 ELSE bimap = last.pre

\* remove_right(r) has taken one pair out of a map of three
C14_Witness ==
    /\ last.op = "remove_right"
    /\ IsSome(last.ret)
    /\ HashMap_len(last.pre.right) = 3
    /\ HashMap_len(bimap.right) = 2

-----------------------------------------------------------------------------
(* Claims about Fhandles, checked under SpecHandles *)

\* C15: under every interleaving of add_file and del_file calls the handle
\* values are issued in strictly increasing order, so all handles returned
\* are pairwise distinct, a released value is never issued again, and a
\* handle still being registered is neither in the list nor held by another
\* call.
C15_DistinctHandles ==
    /\ \A i, j \in 1..Len(issued) : i < j => issued[i] < issued[j]
    /\ \A i \in 1..Len(issued) : issued[i] < fhandles.next_handle
    /\ retired \subseteq {issued[i] : i \in 1..Len(issued)}
    /\ DOMAIN fhandles.list \subseteq {issued[i] : i \in 1..Len(issued)}
    /\ \A t \in Threads : thr[t].pc = "fetched" =>
          /\ thr[t].handle \notin DOMAIN fhandles.list
          /\ thr[t].handle \notin retired
          /\ \A u \in Threads \ {t} :
                thr[u].pc = "fetched" => thr[u].handle # thr[t].handle

\* two add_file calls are between their counter step and their insert while
\* an earlier handle has been released
C15_Witness ==
    /\ \A t \in Threads : thr[t].pc = "fetched"
    /\ retired # {}
    /\ Len(issued) = 3

-----------------------------------------------------------------------------
(* Claims about Inodes, checked under SpecInodes *)

InodeValues == 0..(MaxInode + 1)

\* C1: in every state reached by add, del_inode, del_inode_with_path and
\* rename the inode table is a bijection: every registered inode has exactly
\* one path, every registered path exactly one inode, and get_path and
\* get_inode are mutual inverses.
C1_Bijection ==
    /\ \A i \in DOMAIN inodes.list.left :
          get_left(inodes.list, inodes.list.left[i]) = Some(i)
    /\ \A p \in DOMAIN inodes.list.right :
          get_right(inodes.list, inodes.list.right[p]) = Some(p)
    /\ \A i \in InodeValues, raw \in PathTexts :
          (Inodes_get_path(inodes, i) = Some(PathBuf_from(raw)))
              <=> (Inodes_get_inode(inodes, raw) = Some(i))

\* a rename has just overwritten the binding of its destination and two
\* bindings are left
C1_Witness ==
    /\ last.op = "rename"
    /\ Cardinality(Bound(inodes)) < Cardinality(Bound(last.pre))
    /\ Cardinality(Bound(inodes)) >= 2

\* C2: add(p) is idempotent.  When p is registered it returns the registered
\* inode and changes neither the bindings nor the counter; when p is new the
\* counter advances by exactly one and the old counter value is bound to p.
\* A second add(p) returns the same inode and changes nothing.  Paths
\* compare by components: "t/" names the path "t".
C2_AddIdempotent ==
    /\ Inodes_get_inode(inodes, <<"t", "/">>) = Inodes_get_inode(inodes, <<"t">>)
    /\ inodes.next_inode = FirstInode + Len(issued)
    /\ last.op = "add" =>
        LET raw == last.args[1]
            was == Inodes_get_inode(last.pre, raw)
        IN  /\ IsSome(was) => (last.ret = Unwrap(was) /\ inodes = last.pre)
            /\ ~IsSome(was) =>
                  /\ last.ret = last.pre.next_inode
                  /\ inodes.next_inode = last.pre.next_inode + 1
                  /\ PairsOfLeft(inodes.list) =
                        PairsOfLeft(last.pre.list) \cup {<<last.ret, PathBuf_from(raw)>>}
            /\ Inodes_add(inodes, raw).ret = last.ret
            /\ Inodes_add(inodes, raw).s = inodes

\* add("t/") was called while the path was registered through the text "t"
C2_Witness ==
    /\ last.op = "add"
    /\ last.args[1] = <<"t", "/">>
    /\ IsSome(Inodes_get_inode(last.pre, <<"t">>))
    /\ Len(issued) >= 2

\* C4 as stated: after rename(a, b) with a registered under i, get_inode(a)
\* is None, get_inode(b) is Some(i) and get_path(i) is Some(b).
C4_RenameAsStated ==
    (last.op = "rename" /\ IsSome(Inodes_get_inode(last.pre, last.args[1]))) =>
        LET a == last.args[1]
            b == last.args[2]
            i == Unwrap(Inodes_get_inode(last.pre, a))
        IN  /\ Inodes_get_inode(inodes, a) = None
            /\ Inodes_get_inode(inodes, b) = Some(i)
            /\ Inodes_get_path(inodes, i) = Some(PathBuf_from(b))

\* C4 amended: after rename(a, b) with a registered under i, get_inode(b) is
\* Some(i) and get_path(i) is Some(b); get_inode(a) is None unless a and b
\* are the same path, in which case a stays bound to i.
C4_Rename ==
    (last.op = "rename" /\ IsSome(Inodes_get_inode(last.pre, last.args[1]))) =>
        LET a == last.args[1]
            b == last.args[2]
            i == Unwrap(Inodes_get_inode(last.pre, a))
        IN  /\ Inodes_get_inode(inodes, b) = Some(i)
            /\ Inodes_get_path(inodes, i) = Some(PathBuf_from(b))
            /\ Inodes_get_inode(inodes, a) =
                  IF PathBuf_from(a) = PathBuf_from(b) THEN Some(i) ELSE None

\* a registered path was renamed to a different path
C4_Witness ==
    /\ last.op = "rename"
    /\ IsSome(Inodes_get_inode(last.pre, last.args[1]))
    /\ PathBuf_from(last.args[1]) # PathBuf_from(last.args[2])
    /\ Inodes_get_inode(inodes, last.args[1]) = None

\* C6: the inode values add allocates are strictly increasing in allocation
\* order and never 0, and an inode value whose binding was removed is bound
\* to no path and is never returned by a later add.
C6_NoReuse ==
    /\ \A k \in 1..Len(issued) :
          /\ issued[k] # 0
          /\ k > 1 => issued[k] > issued[k - 1]
    /\ retired \cap Bound(inodes) = {}
    /\ last.op = "add" =>
          /\ last.ret \notin retired
          /\ ~IsSome(Inodes_get_inode(last.pre, last.args[1])) =>
                (Len(issued) > 0 /\ last.ret = issued[Len(issued)])

\* add registered a new path after a binding had been removed
C6_Witness ==
    /\ last.op = "add"
    /\ ~IsSome(Inodes_get_inode(last.pre, last.args[1]))
    /\ retired # {}
    /\ Len(issued) >= 3

\* C7: after rename(old, new) with old registered under i and new under a
\* different inode j, new is bound to i and j is bound to no path; j is
\* retired, and a retired value is never bound again nor returned by add.
C7_RenameOverwrite ==
    /\ (/\ last.op = "rename"
        /\ IsSome(Inodes_get_inode(last.pre, last.args[1]))
        /\ IsSome(Inodes_get_inode(last.pre, last.args[2]))
        /\ Inodes_get_inode(last.pre, last.args[1]) # Inodes_get_inode(last.pre, last.args[2]))
       => LET i == Unwrap(Inodes_get_inode(last.pre, last.args[1]))
              j == Unwrap(Inodes_get_inode(last.pre, last.args[2]))
          IN  /\ Inodes_get_inode(inodes, last.args[2]) = Some(i)
              /\ Inodes_get_path(inodes, i) = Some(PathBuf_from(last.args[2]))
              /\ Inodes_get_path(inodes, j) = None
              /\ j \in retired
    /\ \A j \in retired : Inodes_get_path(inodes, j) = None
    /\ (last.op = "add" => last.ret \notin retired)

\* a rename onto a path registered under another inode has happened
C7_Witness ==
    /\ last.op = "rename"
    /\ IsSome(Inodes_get_inode(last.pre, last.args[1]))
    /\ IsSome(Inodes_get_inode(last.pre, last.args[2]))
    /\ Inodes_get_inode(last.pre, last.args[1]) # Inodes_get_inode(last.pre, last.args[2])

\* C8: rename(old, new) with old not registered leaves the whole table as it
\* was: every binding, the binding of new included, and the counter.
C8_RenameUnregistered ==
    (last.op = "rename" /\ ~IsSome(Inodes_get_inode(last.pre, last.args[1]))) =>
        /\ inodes = last.pre
        /\ Inodes_get_inode(inodes, last.args[2]) = Inodes_get_inode(last.pre, last.args[2])
        /\ inodes.next_inode = last.pre.next_inode

\* rename was called with an unregistered old path and a registered new one
C8_Witness ==
    /\ last.op = "rename"
    /\ ~IsSome(Inodes_get_inode(last.pre, last.args[1]))
    /\ IsSome(Inodes_get_inode(last.pre, last.args[2]))

-----------------------------------------------------------------------------
(* Claims about concurrent Inodes::add, checked under SpecAdd *)

AllDone == \A t \in Threads : thr[t].pc = "done"

\* the paths the threads called add with
CalledPaths == {PathBuf_from(thr[t].path) : t \in Threads}

\* C5: when the threads call add concurrently, under every interleaving no
\* call panics, calls for the same path return the same inode, and once all
\* have returned each path has exactly one binding and the counter has
\* advanced once per distinct path (by exactly one when all threads add the
\* same unregistered path).
C5_ConcurrentAdd ==
    /\ \A t \in Threads : thr[t].pc # "panic"
    /\ \A t \in Threads, u \in Threads :
          (/\ thr[t].pc = "done"
           /\ thr[u].pc = "done"
           /\ PathBuf_from(thr[t].path) = PathBuf_from(thr[u].path))
          => thr[t].ret = thr[u].ret
    /\ AllDone =>
          /\ inodes.next_inode = FirstInode + Cardinality(CalledPaths)
          /\ PairsOfLeft(inodes.list) =
                {<<Unwrap(thr[t].ret), PathBuf_from(thr[t].path)>> : t \in Threads}
          /\ PairsOfRight(inodes.list) = PairsOfLeft(inodes.list)
          /\ HashMap_len(inodes.list.left) = Cardinality(CalledPaths)

\* every thread has added the same path, at least one call was made while
\* another call held the guard, and the counter advanced by one
C5_Witness ==
    /\ AllDone
    /\ Cardinality(CalledPaths) = 1
    /\ \E t \in Threads : thr[t].waited
    /\ inodes.next_inode = FirstInode + 1

-----------------------------------------------------------------------------
(* Claims about Sshfs, checked under SpecFs *)

\* C3: after Sshfs::new(session, root) and after any sequence of callbacks
\* get_path(1) returns the root path: inode 1 is bound to the root at
\* construction and the binding is never removed.
C3_RootIsInodeOne == Inodes_get_path(inodes, 1) = Some(TopPath)

-----------------------------------------------------------------------------
(* Claims about the callbacks of Sshfs, checked under SpecIo, SpecFs and   *)
(* SpecSshfs                                                               *)

\* C16: release(fh) always replies ok, whether or not fh is registered;
\* afterwards get_file(fh) is None and the record of every other handle
\* and the handle counter are as before the call.
C16_Release ==
    last.op = "release" =>
        LET fh == last.args[1]
        IN  /\ last.ret = <<ReplyEmpty>>
            /\ Fhandles_get_file(fhandles, fh) = None
            /\ \A other \in (HandleNumbers \cup DOMAIN last.pre.fhandles.list) \ {fh} :
                  Fhandles_get_file(fhandles, other) =
                      Fhandles_get_file(last.pre.fhandles, other)
            /\ fhandles.next_handle = last.pre.fhandles.next_handle

\* release(fh) was called on a registered handle while another handle was
\* registered
C16_Witness ==
    /\ last.op = "release"
    /\ IsSome(Fhandles_get_file(last.pre.fhandles, last.args[1]))
    /\ HashMap_len(last.pre.fhandles.list) = 2
    /\ HashMap_len(fhandles.list) = 1

\* C17: every invocation of every callback produces exactly one reply,
\* either data or an errno, for every outcome of the remote requests it
\* issues: never zero replies, never two.
C17_ExactlyOneReply ==
    last # NoCall => Len(last.ret) = 1

\* the callbacks C18 names, with the positions of their inode arguments
InodeArgsOf(op) ==
    CASE op \in {"lookup", "getattr", "readdir", "readlink", "open", "mknod",
                 "unlink", "mkdir", "rmdir", "symlink", "setattr"} -> {1}
      [] op = "rename" -> {1, 3}
      [] OTHER -> {}

\* C18: when an inode argument of lookup, getattr, readdir, readlink, open,
\* mknod of a regular file, unlink, mkdir, rmdir, symlink, setattr or rename
\* (either parent) is not registered in the inode table, the callback
\* replies ENOENT, issues no remote request and changes neither table.
C18_UnknownInode ==
    (/\ last # NoCall
     /\ \E k \in InodeArgsOf(last.op) :
           ~IsSome(Inodes_get_path(last.pre.inodes, last.args[k]))
     /\ last.op = "mknod" => Word(Bits(last.args[3]) \cap Bits(S_IFMT)) = S_IFREG)
    => /\ last.ret = <<ReplyError(ENOENT)>>
       /\ last.reqs = <<>>
       /\ inodes = last.pre.inodes
       /\ fhandles = last.pre.fhandles
       /\ remote = last.pre.remote
       /\ data = last.pre.data

\* open was called with an inode that is not registered while the inode
\* table had two bindings and a file was open
C18_Witness ==
    /\ last.op = "open"
    /\ ~IsSome(Inodes_get_path(last.pre.inodes, last.args[1]))
    /\ HashMap_len(last.pre.inodes.list.left) = 2
    /\ HashMap_len(last.pre.fhandles.list) = 1

\* the paths of a rename call, from the table the call started on
RenameOld == PathBuf_push(Unwrap(Inodes_get_path(last.pre.inodes, last.args[1])), last.args[2])

RenameNew == PathBuf_push(Unwrap(Inodes_get_path(last.pre.inodes, last.args[3])), last.args[4])

\* a rename has replied ok for an entry that lookup reports and whose inode
\* was registered
RenameDone ==
    /\ last.op = "rename"
    /\ last.ret = <<ReplyEmpty>>
    /\ IsSome(Inodes_get_inode(last.pre.inodes, PathBuf_text(RenameOld)))
    /\ last.pre.remote[RenameOld] # "Other"

\* what C19 says of the state after the rename, i being the inode the old
\* path had
RenameFollowed ==
    LET i      == Unwrap(Inodes_get_inode(last.pre.inodes, PathBuf_text(RenameOld)))
        newly  == Sshfs_lookup(inodes, remote, last.args[3], last.args[4], None)
        byino  == Sshfs_getattr(inodes, remote, i, None)
    IN  /\ newly.replies[1][1] = "entry"
        /\ newly.replies[1][2].ino = i
        /\ newly.inodes = inodes
        /\ byino.reqs = << <<"lstat", RenameNew>> >>
        /\ byino.replies[1][1] = "attr"
        /\ byino.replies[1][2].ino = i

RenameOldGone ==
    Sshfs_lookup(inodes, remote, last.args[1], last.args[2], None).replies
        = <<ReplyError(ENOENT)>>

\* C19 as stated: after a successful rename (parent, name) -> (newparent,
\* newname) of an entry with inode i, lookup(newparent, newname) reports i,
\* getattr(i) resolves to the new path, and lookup(parent, name) replies
\* ENOENT.
C19_RenameAsStated ==
    RenameDone => (RenameFollowed /\ RenameOldGone)

\* C19: after a successful rename (parent, name) -> (newparent, newname) of
\* an entry with inode i, lookup(newparent, newname) reports i and
\* getattr(i) resolves to the new path; lookup(parent, name) replies ENOENT
\* unless the two paths are the same path, in which case it reports i too.
C19_Rename ==
    RenameDone =>
        /\ RenameFollowed
        /\ IF RenameOld = RenameNew
           THEN Sshfs_lookup(inodes, remote, last.args[1], last.args[2], None).replies[1][2].ino
                    = Unwrap(Inodes_get_inode(last.pre.inodes, PathBuf_text(RenameOld)))
           ELSE RenameOldGone

\* a registered entry was renamed to another directory over an entry that
\* existed there
C19_Witness ==
    /\ RenameDone
    /\ last.args[1] # last.args[3]
    /\ RenameNew \in DOMAIN last.pre.remote
    /\ RenameOld # RenameNew

\* the path of an unlink or rmdir call, from the table the call started on
RemovedPath == PathBuf_push(Unwrap(Inodes_get_path(last.pre.inodes, last.args[1])), last.args[2])

\* C20: unlink(parent, name) and rmdir(parent, name) with a registered
\* parent: when the remote request succeeds the reply is ok and the inode
\* binding of the path is removed, so getattr on its old inode and a second
\* unlink or rmdir of the name reply ENOENT; when the remote request fails
\* an errno is replied and the inode table is unchanged.
C20_Remove ==
    (/\ last.op \in {"unlink", "rmdir"}
     /\ IsSome(Inodes_get_path(last.pre.inodes, last.args[1])))
    => LET old   == Inodes_get_inode(last.pre.inodes, PathBuf_text(RemovedPath))
           again == IF last.op = "unlink"
                    THEN Sshfs_unlink(inodes, remote, last.args[1], last.args[2], None)
                    ELSE Sshfs_rmdir(inodes, remote, last.args[1], last.args[2], None)
       IN  IF RemovedPath \in DOMAIN last.pre.remote /\ RemovedPath \notin DOMAIN remote
           THEN /\ last.ret = <<ReplyEmpty>>
                /\ Inodes_get_inode(inodes, PathBuf_text(RemovedPath)) = None
                /\ IsSome(old) =>
                      /\ Inodes_get_path(inodes, Unwrap(old)) = None
                      /\ Sshfs_getattr(inodes, remote, Unwrap(old), None).replies
                             = <<ReplyError(ENOENT)>>
                /\ again.replies = <<ReplyError(ENOENT)>>
                /\ \A i \in DOMAIN inodes.list.left :
                      Inodes_get_path(inodes, i) = Inodes_get_path(last.pre.inodes, i)
           ELSE /\ last.ret[1][1] = "error"
                /\ inodes = last.pre.inodes
                /\ remote = last.pre.remote

\* an unlink has removed a file whose inode was registered next to another
\* registered entry
C20_Witness ==
    /\ last.op = "unlink"
    /\ last.ret = <<ReplyEmpty>>
    /\ IsSome(Inodes_get_inode(last.pre.inodes, PathBuf_text(RemovedPath)))
    /\ HashMap_len(inodes.list.left) = 2

-----------------------------------------------------------------------------
(* Claims about the error replies, checked under SpecFs and SpecErr *)

\* the remote rmdir outcomes C21 speaks of: SFTP status 18 and the
\* session-level codes
RmdirErrors == {SFTP(18)} \cup {Session(-c) : c \in 1..MaxSessionCode}

\* C21: rmdir replies ENOTEMPTY when the remote rmdir fails with
\* session-level error code -31; every other session-level error code makes
\* rmdir reply ENXIO, and SFTP status 18 also yields ENOTEMPTY.
C21_RmdirNotEmpty ==
    (/\ last.op = "rmdir"
     /\ IsSome(Inodes_get_path(last.pre.inodes, last.args[1])))
    => /\ \A e \in RmdirErrors :
             Sshfs_rmdir(last.pre.inodes, last.pre.remote, last.args[1], last.args[2],
                         Some(e)).replies
                 = <<ReplyError(IF e \in {Session(-31), SFTP(18)} THEN ENOTEMPTY ELSE ENXIO)>>
       /\ LET tried == sftp_rmdir(last.pre.remote, RemovedPath, None).res
          IN  /\ (~tried.ok /\ tried.val = Session(-31))
                    => last.ret \in {<<ReplyError(ENOTEMPTY)>>, <<ReplyError(ENXIO)>>}
              /\ last.ret = <<ReplyError(ENXIO)>> => remote = last.pre.remote

\* rmdir of a directory that has an entry has replied ENOTEMPTY
C21_Witness ==
    /\ last.op = "rmdir"
    /\ IsSome(Inodes_get_path(last.pre.inodes, last.args[1]))
    /\ IsDir(last.pre.remote, RemovedPath)
    /\ \E q \in DOMAIN last.pre.remote : IsUnder(q, RemovedPath)
    /\ last.ret = <<ReplyError(ENOTEMPTY)>>

\* the errno of SFTP status codes 2..21, in order
StatusTable ==
    <<ENOENT, EACCES, EIO, ENODEV, ENXIO, ENETDOWN, ENODEV, EBADF, ENOENT, EEXIST,
      EACCES, ENXIO, ENOSPC, EDQUOT, ENODEV, ENOLCK, ENOTEMPTY, ENOTDIR,
      ENAMETOOLONG, ELOOP>>

\* C22: the SFTP error mapping is total: status codes 2..21 map to the
\* twenty errno values of the table in order, every other SFTP status code
\* maps to EIO, and every session-level error code maps to ENXIO.
C22_SftpMapping ==
    last.op = "from_ssh2" =>
        LET e == last.args[1]
        IN  last.ret = << IF e.layer = "Session" THEN ENXIO
                          ELSE IF e.code \in 2..21 THEN StatusTable[e.code - 1]
                          ELSE EIO >>

\* status 21, a status outside the table and a session-level code have each
\* been converted
C22_Witness ==
    /\ last.op = "from_ssh2"
    /\ last.args[1] = SFTP(21)
    /\ last.ret = <<ELOOP>>
    /\ SFTP(MaxStatus) \in Ssh2Errors
    /\ Session(-31) \in Ssh2Errors

\* the errno values of POSIX the conversions name
Errnos ==
    {EPERM, ENOENT, EINTR, EIO, ENXIO, EBADF, EWOULDBLOCK, ENOMEM, EACCES, EEXIST,
     ENODEV, ENOTDIR, EINVAL, ENOSPC, EPIPE, ENAMETOOLONG, ENOLCK, ENOTEMPTY, ELOOP,
     EILSEQ, ENOTSUP, EADDRINUSE, EADDRNOTAVAIL, ENETDOWN, ECONNABORTED, ECONNRESET,
     ENOTCONN, ETIMEDOUT, ECONNREFUSED, EDQUOT}

\* the table of the local I/O error kinds
KindTable(kind) ==
    CASE kind = "NotFound"          -> ENOENT
      [] kind = "PermissionDenied"  -> EACCES
      [] kind = "ConnectionRefused" -> ECONNREFUSED
      [] kind = "ConnectionReset"   -> ECONNRESET
      [] kind = "ConnectionAborted" -> ECONNABORTED
      [] kind = "NotConnected"      -> ENOTCONN
      [] kind = "AddrInUse"         -> EADDRINUSE
      [] kind = "AddrNotAvailable"  -> EADDRNOTAVAIL
      [] kind = "BrokenPipe"        -> EPIPE
      [] kind = "AlreadyExists"     -> EEXIST
      [] kind = "WouldBlock"        -> EWOULDBLOCK
      [] kind = "InvalidInput"      -> EINVAL
      [] kind = "InvalidData"       -> EILSEQ
      [] kind = "TimedOut"          -> ETIMEDOUT
      [] kind = "Interrupted"       -> EINTR
      [] kind = "Unsupported"       -> ENOTSUP
      [] kind = "OutOfMemory"       -> ENOMEM
      [] OTHER                      -> EIO

\* C23: the local I/O error mapping is total into POSIX errno values and
\* follows the table for every error kind: WriteZero, UnexpectedEof and
\* every kind not listed map to EIO, Unsupported to ENOTSUP, OutOfMemory to
\* ENOMEM; no kind maps to a value that is not a POSIX errno.
C23_IoMapping ==
    last.op = "from_io" =>
        /\ last.ret = <<KindTable(last.args[1])>>
        /\ last.ret[1] \in Errnos

-----------------------------------------------------------------------------
(* Claims about the locks, checked under SpecLock *)

\* thread t is about to seek, read or write on its file object, or has such
\* a request in flight
OnFile(t) == thr[t].pc \in {"step", "sent"} /\ Kind(t) \in {"seek", "io"}

\* thread t holds the Mutex of file object fh
HoldsFile(t, fh) == fh \in DOMAIN locks.file /\ locks.file[fh] = Some(t)

\* thread t waits in file_mutex.lock()
WaitsForFile(t) ==
    /\ thr[t].pc = "step"
    /\ Kind(t) = "lock"
    /\ ~ENABLED LK_file_lock(t)

\* C24: of two concurrent read, write or lseek callbacks on one handle, the
\* seek and the read or write loop after it in one callback are never
\* interleaved with a seek, read or write of the other on that file object:
\* the record's lock is held through the whole pair. Callbacks on different
\* handles are not blocked by that lock.
C24_FileSerialized ==
    /\ \A t \in Threads : OnFile(t) => HoldsFile(t, Unwrap(thr[t].file))
    /\ \A t \in Threads : \A u \in Threads \ {t} :
          (OnFile(t) /\ OnFile(u)) => thr[t].file # thr[u].file
    /\ \A t \in Threads :
          WaitsForFile(t) => \E u \in Threads \ {t} : HoldsFile(u, Unwrap(thr[t].file))

\* one thread has a read or write in flight on a handle while another
\* thread waits for the lock of that handle
C24_Witness ==
    \E t \in Threads : \E u \in Threads \ {t} :
        /\ thr[t].pc = "sent"
        /\ Kind(t) = "io"
        /\ WaitsForFile(u)
        /\ thr[u].file = thr[t].file

\* thread t has an SFTP request in flight
InFlight(t) == thr[t].pc \in {"sent", "closing", "dropping"}

\* the locks thread t holds
Held(t) ==
    (IF guard = Some(t) THEN {"inodes"} ELSE {})
    \cup (IF locks.list = Some(t) THEN {"handles"} ELSE {})
    \cup {fh \in DOMAIN locks.file : locks.file[fh] = Some(t)}

\* every thread inside a callback waits for a lock another waiting thread
\* holds
LockCycle ==
    /\ \E t \in Threads : thr[t].pc # "idle"
    /\ \A t \in Threads : thr[t].pc # "idle" => ~ENABLED
          (\/ LK_inodes_lock(t) \/ LK_list_lock(t) \/ LK_file_lock(t) \/ LK_send(t)
           \/ LK_fetch_add(t) \/ LK_seek(t) \/ LK_return(t) \/ LK_dropped(t)
           \/ LK_closed(t) \/ LK_remove(t) \/ LK_get_file(t)
           \/ (\E file \in HandleFiles : LK_insert(t, file))
           \/ (\E b \in BOOLEAN : LK_inodes_unlock(t, b) \/ LK_recv(t, b)))

\* C25: no callback holds the guard of the inode table or of the handle
\* table while an SFTP request is in flight or while it waits for the lock
\* of an open-file record; no callback holds two locks at once and no lock
\* cycle is reachable.
C25_GuardsAreShort ==
    /\ \A t \in Threads :
          (InFlight(t) \/ (thr[t].pc = "step" /\ Kind(t) = "lock"))
              => (guard # Some(t) /\ locks.list # Some(t))
    /\ \A t \in Threads : Cardinality(Held(t)) <= 1
    /\ ~LockCycle

-----------------------------------------------------------------------------
(* Claims about the command line, checked under SpecRemoteName *)

\* the text s from position i on, and before position i
After(s, i) == SubSeq(s, i + 1, Len(s))

Before(s, i) == SubSeq(s, 1, i - 1)

\* s without white space at its ends: the longest piece of s that neither
\* starts nor ends with a space and has only spaces around it
Trimmed(s) ==
    LET inner == {i \in 1..Len(s) : s[i] # " "}
    IN  IF inner = {} THEN <<>>
        ELSE SubSeq(s, CHOOSE i \in inner : \A j \in inner : i <= j,
                       CHOOSE i \in inner : \A j \in inner : j <= i)

\* i is the position of the first c in s
FirstAt(s, c, i) == i \in 1..Len(s) /\ s[i] = c /\ \A j \in 1..(i - 1) : s[j] # c

\* C26: RemoteName::from_str(s) succeeds iff, after stripping an optional
\* prefix up to the first '@', the rest contains ':' and the text before the
\* first ':' is non-empty after trimming; on success user is the trimmed
\* text before '@' (None when there is no '@' or it is blank), host is the
\* trimmed host text, and path is the trimmed text after ':' (None when
\* blank); in every other case it returns the format error.
C26_RemoteName ==
    last.op = "from_str" =>
        LET s     == last.args[1]
            ats   == {i \in 1..Len(s) : FirstAt(s, "@", i)}
            rest  == IF ats = {} THEN s ELSE After(s, CHOOSE i \in ats : TRUE)
            name  == IF ats = {} THEN <<>> ELSE Trimmed(Before(s, CHOOSE i \in ats : TRUE))
            cols  == {i \in 1..Len(rest) : FirstAt(rest, ":", i)}
            c     == CHOOSE i \in cols : TRUE
            good  == cols # {} /\ Trimmed(Before(rest, c)) # <<>>
        IN  /\ last.ret.ok <=> good
            /\ good =>
                  /\ last.ret.val.user = (IF name = <<>> THEN None ELSE Some(name))
                  /\ last.ret.val.host = Trimmed(Before(rest, c))
                  /\ last.ret.val.path =
                        (IF Trimmed(After(rest, c)) = <<>> THEN None
                         ELSE Some(PathBuf_from(Trimmed(After(rest, c)))))
            /\ ~good => last.ret = Err(ErrorRemoteName)

\* a text with a blank user, a host in white space and a path was parsed
C26_Witness ==
    /\ last.op = "from_str"
    /\ last.args[1] = <<"@", " ", "h", ":">>
    /\ last.ret = Ok([user |-> None, host |-> <<"h">>, path |-> None])

-----------------------------------------------------------------------------
(* Claims about the requests of rename and of the other callbacks, checked *)
(* under SpecFs, SpecIo and SpecSshfs                                      *)

\* a rename call whose two parents were registered
RenameCalled ==
    /\ last.op = "rename"
    /\ IsSome(Inodes_get_path(last.pre.inodes, last.args[1]))
    /\ IsSome(Inodes_get_path(last.pre.inodes, last.args[3]))

\* RENAME_NOREPLACE is absent from the flags of the rename call
Emulated == Bits(last.args[5]) \cap Bits(RENAME_NOREPLACE) = {}

\* the requests of a call that remove new_path
Removals(reqs) == {k \in 1..Len(reqs) : reqs[k][1] \in {"rmdir", "unlink"}}

\* what C27 says of a rename call whatever decides that new_path exists:
\* the removal matches the kind of the destination, a removal that fails
\* ends the call with the table unchanged, one that succeeds drops the
\* binding of the destination, and with RENAME_NOREPLACE the only request is
\* the rename
PreDeleteRules ==
    LET bound == Inodes_get_inode(last.pre.inodes, PathBuf_text(RenameNew))
        names == [k \in 1..Len(last.reqs) |-> last.reqs[k][1]]
    IN  /\ ~Emulated => names = <<"rename">>
        /\ Emulated => last.reqs[1] = <<"lstat", RenameNew>>
        /\ Removals(last.reqs) # {} =>
              /\ RenameNew \in DOMAIN last.pre.remote
              /\ Removals(last.reqs) = {2}
              /\ last.reqs[2] = <<IF IsDir(last.pre.remote, RenameNew) THEN "rmdir"
                                  ELSE "unlink", RenameNew>>
        /\ (Removals(last.reqs) # {} /\ Len(last.reqs) = 2) =>
              /\ last.ret[1][1] = "error"
              /\ inodes = last.pre.inodes
              /\ remote = last.pre.remote
        /\ (Removals(last.reqs) # {} /\ Len(last.reqs) = 3) =>
              /\ names[3] = "rename"
              /\ IsSome(bound) => Inodes_get_path(inodes, Unwrap(bound)) = None
                                      \/ last.ret = <<ReplyEmpty>>
        /\ Removals(last.reqs) = {} => Len(last.reqs) <= 2

\* C27 as stated: rename pre-deletes the destination iff RENAME_NOREPLACE is
\* absent and new_path exists on the remote; a directory is removed with
\* rmdir, anything else with unlink, and only after the removal succeeds is
\* the binding of the destination dropped; if the removal fails the error
\* is replied, no rename is issued and the inode table is unchanged; with
\* RENAME_NOREPLACE no lstat, unlink or rmdir is issued on new_path.
C27_PreDeleteAsStated ==
    RenameCalled =>
        /\ Removals(last.reqs) # {} <=> (Emulated /\ RenameNew \in DOMAIN last.pre.remote)
        /\ PreDeleteRules

\* C27: rename pre-deletes the destination iff RENAME_NOREPLACE is absent
\* and the lstat of new_path succeeds: a destination whose lstat fails is
\* treated as absent, and the rename is issued without a removal. The rest
\* is as stated.
C27_PreDelete ==
    RenameCalled =>
        /\ \A fault \in {None, Broken} :
              LET out == Sshfs_rename(last.pre.inodes, last.pre.remote, last.args[1],
                                      last.args[2], last.args[3], last.args[4],
                                      last.args[5], TRUE, fault, None, None)
              IN  Removals(out.reqs) # {}
                      <=> (Emulated /\ sftp_lstat(last.pre.remote, RenameNew, fault).ok)
        /\ Removals(last.reqs) # {} => Emulated
        /\ PreDeleteRules

\* a rename without RENAME_NOREPLACE could not remove a registered
\* destination: the error was replied after the lstat and the removal
C27_Witness ==
    /\ RenameCalled
    /\ Emulated
    /\ Len(last.reqs) = 2
    /\ Removals(last.reqs) = {2}
    /\ IsSome(Inodes_get_inode(last.pre.inodes, PathBuf_text(RenameNew)))
    /\ last.ret[1][1] = "error"

\* the number of remote requests of a callback that take a fault
NFaults(op) ==
    CASE op \in {"lookup", "getattr", "readdir", "readlink", "unlink", "rmdir", "open"} -> 1
      [] op \in {"mknod", "mkdir", "symlink", "setattr"} -> 2
      [] op = "rename" -> 3
      [] OTHER -> 0

NoFaults == <<None, None, None>>

\* request k fails with e, the others answer from the tree
OneFault(k, e) == [i \in 1..3 |-> IF i = k THEN Some(e) ELSE None]

\* the call of the record made again on the state it started on, with the
\* faults f of its requests; replace says what the server does with an
\* existing destination of rename
Redo(f, replace) ==
    LET a == last.args
        P == last.pre
    IN  CASE last.op = "lookup" -> Sshfs_lookup(P.inodes, P.remote, a[1], a[2], f[1])
          [] last.op = "getattr" -> Sshfs_getattr(P.inodes, P.remote, a[1], f[1])
          [] last.op = "readdir" ->
                Sshfs_readdir(P.inodes, P.remote, a[1], a[2], a[3], f[1])
          [] last.op = "readlink" -> Sshfs_readlink(P.inodes, P.remote, a[1], f[1])
          [] last.op = "mknod" ->
                Sshfs_mknod(P.inodes, P.remote, a[1], a[2], a[3], a[4], f[1], f[2])
          [] last.op = "unlink" -> Sshfs_unlink(P.inodes, P.remote, a[1], a[2], f[1])
          [] last.op = "mkdir" ->
                Sshfs_mkdir(P.inodes, P.remote, a[1], a[2], a[3], a[4], f[1], f[2])
          [] last.op = "rmdir" -> Sshfs_rmdir(P.inodes, P.remote, a[1], a[2], f[1])
          [] last.op = "symlink" ->
                Sshfs_symlink(P.inodes, P.remote, a[1], a[2], a[3], f[1], f[2])
          [] last.op = "setattr" ->
                Sshfs_setattr(P.inodes, P.remote, a[1], a[2], 9, f[1], f[2])
          [] last.op = "rename" ->
                Sshfs_rename(P.inodes, P.remote, a[1], a[2], a[3], a[4], a[5],
                             replace, f[1], f[2], f[3])
          [] last.op = "open" ->
                Sshfs_open(P.inodes, P.fhandles, P.remote, P.data, a[1], a[2], f[1])

\* the place in the requests of a call of the request that fault k is for,
\* 0 when the call did not issue it
FaultedAt(reqs, k) ==
    LET names == IF last.op # "rename" THEN {}
                 ELSE <<{"lstat"}, {"rmdir", "unlink"}, {"rename"}>>[k]
        at    == {j \in 1..Len(reqs) : reqs[j][1] \in names}
    IN  IF last.op = "rename"
        THEN (IF at = {} THEN 0 ELSE CHOOSE j \in at : TRUE)
        ELSE IF last.op = "mknod" /\ k = 2 THEN (IF Len(reqs) >= 3 THEN 3 ELSE 0)
        ELSE IF k <= Len(reqs) THEN k ELSE 0

\* the answer of the first request of a call from the tree alone
Natural(req, replace) ==
    LET P == last.pre
    IN  CASE req[1] = "lstat" -> sftp_lstat(P.remote, req[2], None)
          [] req[1] = "readdir" -> sftp_readdir(P.remote, req[2], None)
          [] req[1] = "readlink" -> sftp_readlink(P.remote, req[2], None)
          [] req[1] = "unlink" -> sftp_unlink(P.remote, req[2], None).res
          [] req[1] = "rmdir" -> sftp_rmdir(P.remote, req[2], None).res
          [] req[1] = "mkdir" -> sftp_mkdir(P.remote, req[2], None).res
          [] req[1] = "symlink" -> sftp_symlink(P.remote, req[3], None).res
          [] req[1] = "setstat" -> sftp_setstat(P.remote, req[2], None)
          [] req[1] = "rename" ->
                sftp_rename(P.remote, req[2], req[3], replace, None).res
          [] req[1] = "open_mode" /\ last.op = "mknod" ->
                sftp_open_create(P.remote, req[2], None).res
          [] req[1] = "open_mode" /\ last.op = "open" ->
                sftp_open_mode(P.remote, P.data, req[2], req[3], None).res

\* the errno replied for the failure e of a request
Mapped(e) ==
    IF last.op = "rmdir" /\ e = Session(-31) THEN ENOTEMPTY ELSE Error_from_ssh2(e)

\* the call ended at request j, replying the errno of its failure e
EndsAt(out, j, e) ==
    /\ Len(out.reqs) = j
    /\ out.replies = <<ReplyError(Mapped(e))>>

\* the lstat of rename on new_path
IsProbe(req) == last.op = "rename" /\ req[1] = "lstat"

\* a table lookup of the call failed: an inode argument or the file handle
\* was not registered
LookupFailed ==
    \/ \E k \in InodeArgsOf(last.op) :
          ~IsSome(Inodes_get_path(last.pre.inodes, last.args[k]))
    \/ /\ last.op \in {"read", "write", "lseek"}
       /\ ~IsSome(Fhandles_get_file(last.pre.fhandles, last.args[1]))

\* read, write or lseek of the record made again with the answers of plan
RedoIo(plan) ==
    LET a == last.args
        P == last.pre
    IN  CASE last.op = "read" ->
                Sshfs_read(P.fhandles, P.remote, P.data, a[1], a[2], a[3], plan)
          [] last.op = "write" ->
                Sshfs_write(P.fhandles, P.remote, P.data, a[1], a[2], a[3], plan)
          [] last.op = "lseek" ->
                Sshfs_lseek(P.fhandles, P.remote, P.data, a[1], a[2], a[3], plan.seek)

\* a failure of the file object ends read, write and lseek
FileFailureEnds ==
    (last.op \in {"read", "write", "lseek"} /\ ~LookupFailed) =>
        \A plan \in WritePlans :
            LET out == RedoIo(plan)
            IN  /\ (IsSome(plan.seek) /\ (last.op = "lseek" => last.args[3] \in {0, 1, 2})) =>
                      /\ out.replies = <<ReplyError(Error_from_io(Unwrap(plan.seek)))>>
                      /\ Len(out.reqs) <= (IF last.op = "lseek" THEN 1 ELSE 0)
                /\ (last.op # "lseek" /\ ~IsSome(plan.seek) /\ plan.fail_at > 0
                       /\ Len(out.reqs) >= plan.fail_at) =>
                      /\ Len(out.reqs) = plan.fail_at
                      /\ out.replies = <<ReplyError(Error_from_io(plan.kind))>>

\* request k of the call fails with e, or its first request fails from the
\* tree: the call ends there, unless exempt says the request is one whose
\* failure the callback goes past, and then the next request is sent
FailureEnds(exempt(_)) ==
    /\ \A k \in 1..NFaults(last.op), e \in InjectedErrors :
          LET out == Redo(OneFault(k, e), TRUE)
              j   == FaultedAt(out.reqs, k)
          IN  j > 0 =>
                 IF exempt(out.reqs[j]) THEN Len(out.reqs) = j + 1
                 ELSE EndsAt(out, j, e)
    /\ \A replace \in IF last.op = "rename" THEN BOOLEAN ELSE {TRUE} :
          LET out == Redo(NoFaults, replace)
          IN  (NFaults(last.op) > 0 /\ out.reqs # <<>>) =>
                 LET first == Natural(out.reqs[1], replace)
                 IN  ~first.ok =>
                        IF exempt(out.reqs[1]) THEN Len(out.reqs) = 2
                        ELSE EndsAt(out, 1, first.val)

NoRequest(req) == FALSE

\* C28 as stated: in every callback the first remote request or table
\* lookup that fails ends the callback: no request is issued after it, and
\* the one reply is the errno mapped from that failure.
C28_FirstFailureEndsAsStated ==
    last # NoCall =>
        /\ LookupFailed => (last.reqs = <<>> /\ last.ret[1][1] = "error")
        /\ FileFailureEnds
        /\ FailureEnds(NoRequest)

\* C28: the first remote request or table lookup that fails ends the
\* callback with the errno mapped from that failure and no further request,
\* except for the lstat rename makes on new_path: when it fails the
\* destination is taken as absent and the remote rename is still issued.
C28_FirstFailureEnds ==
    last # NoCall =>
        /\ LookupFailed => (last.reqs = <<>> /\ last.ret[1][1] = "error")
        /\ FileFailureEnds
        /\ FailureEnds(IsProbe)

\* setattr stopped at its second request: setstat went through, the lstat
\* failed and its errno was replied
C28_Witness ==
    /\ last.op = "setattr"
    /\ Len(last.reqs) = 2
    /\ last.ret[1][1] = "error"

-----------------------------------------------------------------------------
(* Claims about open and read, checked under SpecIo                        *)

\* the flag words of open(2) over the six bits open looks at and two it
\* does not (O_NONBLOCK, O_CLOEXEC)
AllOpenFlagWords == {Word(b) : b \in SUBSET {0, 1, 6, 7, 9, 10, 11, 19}}

\* bit number i of the word w is set
BitSet(w, i) == (w \div (2 ^ i)) % 2 = 1

\* the four flags that are translated one to one
OneToOne(w, f) ==
    /\ "APPEND" \in f <=> BitSet(w, 10)
    /\ "CREATE" \in f <=> BitSet(w, 6)
    /\ "TRUNCATE" \in f <=> BitSet(w, 9)
    /\ "EXCLUSIVE" \in f <=> BitSet(w, 7)
    /\ f \subseteq {"READ", "WRITE", "APPEND", "CREATE", "TRUNCATE", "EXCLUSIVE"}

\* the table of the access flags read bit by bit: O_WRONLY gives WRITE,
\* O_RDWR gives READ and WRITE, neither gives READ, nothing else is set
AccessBitByBit(w, f) ==
    /\ BitSet(w, 0) => "WRITE" \in f
    /\ BitSet(w, 1) => {"READ", "WRITE"} \subseteq f
    /\ (~BitSet(w, 0) /\ ~BitSet(w, 1)) => "READ" \in f
    /\ "READ" \in f => (BitSet(w, 1) \/ ~BitSet(w, 0))
    /\ "WRITE" \in f => (BitSet(w, 0) \/ BitSet(w, 1))

\* the table of the access flags read from its first row down: a word with
\* O_WRONLY gives WRITE alone, also when O_RDWR is set with it
AccessFirstMatch(w, f) ==
    f \cap {"READ", "WRITE"} =
        CASE w % 4 \in {1, 3} -> {"WRITE"}
          [] w % 4 = 2 -> {"READ", "WRITE"}
          [] w % 4 = 0 -> {"READ"}

\* an open that the server answered with a file: the request carries the
\* translated flags and mode 0o777, one record is added to the handle table
\* under a handle that was free, the others stay, and the reply carries
\* that handle and the flag word of the call
OpenRegisters(access(_, _)) ==
    (last.op = "open" /\ last.ret # <<>> /\ last.ret[1][1] = "opened") =>
        LET fh   == last.ret[1][2]
            path == Unwrap(Inodes_get_path(last.pre.inodes, last.args[1]))
            req  == last.reqs[1]
            old  == last.pre.fhandles.list
        IN  /\ Len(last.reqs) = 1
            /\ req[1] = "open_mode" /\ req[2] = path /\ req[4] = 511
            /\ access(last.args[2], req[3])
            /\ OneToOne(last.args[2], req[3])
            /\ fh \notin DOMAIN old
            /\ DOMAIN fhandles.list = (DOMAIN old) \cup {fh}
            /\ \A x \in DOMAIN old : fhandles.list[x] = old[x]
            /\ fhandles.list[fh] = File(path, req[3])
            /\ last.ret = <<ReplyOpened(fh, last.args[2])>>

\* the translation of every flag word
OpenTranslates(access(_, _)) ==
    \A w \in AllOpenFlagWords :
        /\ access(w, OpenFlags_from(w))
        /\ OneToOne(w, OpenFlags_from(w))

TranslatesFirstMatch == OpenTranslates(AccessFirstMatch)

\* C29 as stated, for the flag words of the calls made: open translates
\* the flag word bit by bit: O_WRONLY gives WRITE, O_RDWR gives READ and
\* WRITE, neither gives READ, O_APPEND, O_CREAT, O_TRUNC and O_EXCL each
\* add their flag and nothing else is set; on remote success one record is
\* added to the handle table and the reply carries its handle and the flag
\* word unchanged.
C29_OpenAsStated == OpenRegisters(AccessBitByBit)

\* C29: as stated, for every flag word and for the calls made, with the
\* access flags decided by the first test that matches: a flag word with
\* O_WRONLY set gives WRITE alone whether or not O_RDWR is set, O_RDWR
\* without O_WRONLY gives READ and WRITE, neither gives READ.
C29_Open ==
    /\ TranslatesFirstMatch
    /\ OpenRegisters(AccessFirstMatch)

\* open(O_WRONLY | O_RDWR) succeeded while another file was open
C29_Witness ==
    /\ last.op = "open"
    /\ last.args[2] = 3
    /\ last.ret[1][1] = "opened"
    /\ HashMap_len(last.pre.fhandles.list) = 1

\* the bytes of the file of handle fh before the call of the record
BytesOf(fh) == Content(last.pre.data, last.pre.fhandles.list[fh].path)

\* the bytes of a file from offset up to min(offset + size, its length)
Slice(bytes, offset, size) ==
    LET end == IF offset + size < Len(bytes) THEN offset + size ELSE Len(bytes)
        n   == IF end > offset THEN end - offset ELSE 0
    IN  [i \in 1..n |-> bytes[offset + i]]

\* C30: a read that succeeds replies the bytes of the remote file from
\* offset up to min(offset + size, file length): never more than size,
\* nothing at or after the end of the file, and the same bytes however the
\* server splits them into short reads.
C30_Read ==
    (last.op = "read" /\ last.ret # <<>> /\ last.ret[1][1] = "data") =>
        LET fh     == last.args[1]
            offset == last.args[2]
            size   == last.args[3]
            want   == Slice(BytesOf(fh), offset, size)
        IN  /\ last.ret = <<ReplyData(want)>>
            /\ Len(last.ret[1][2]) <= size
            /\ offset >= Len(BytesOf(fh)) => last.ret[1][2] = <<>>
            /\ \A chunk \in 1..3 :
                  RedoIo(NoFault(chunk)).replies = <<ReplyData(want)>>
            /\ data = last.pre.data

\* read(offset 0, size 3) of a file of two bytes that the server hands out
\* one byte at a time: two short reads and the read that returns 0
C30_Witness ==
    /\ last.op = "read"
    /\ last.args[2] = 0
    /\ last.args[3] = 3
    /\ Len(last.reqs) = 3
    /\ last.ret = <<ReplyData(BytesOf(last.args[1]))>>
    /\ Len(BytesOf(last.args[1])) = 2

-----------------------------------------------------------------------------
(* Claims about write, lseek, mknod, mkdir and readdir                     *)

\* a write call on a registered handle has replied a length
WriteDone ==
    /\ last.op = "write"
    /\ last.ret # <<>>
    /\ last.ret[1][1] = "written"

\* the file of the handle of the record after the call: the bytes of arg
\* stand at start + 1 .. start + Len(arg), what was there before is kept,
\* a gap between the old end and start is zeros
WrittenAt(start) ==
    LET fh    == last.args[1]
        arg   == last.args[3]
        path  == last.pre.fhandles.list[fh].path
        old   == BytesOf(fh)
        new   == Content(data, path)
        size  == IF start + Len(arg) > Len(old) THEN start + Len(arg) ELSE Len(old)
    IN  /\ Len(new) = size
        /\ \A i \in 1..size :
              new[i] = IF i > start /\ i <= start + Len(arg) THEN arg[i - start]
                       ELSE IF i <= Len(old) THEN old[i] ELSE 0

\* the requests of a write call carry what is left of data, in order, each
\* time less
InOrder ==
    LET arg == last.args[3]
    IN  \A k \in 1..Len(last.reqs) :
           LET buf == last.reqs[k][3]
           IN  /\ last.reqs[k][1] = "write"
               /\ buf # <<>>
               /\ buf = SubSeq(arg, Len(arg) - Len(buf) + 1, Len(arg))
               /\ k > 1 => Len(buf) < Len(last.reqs[k - 1][3])

\* a write whose seek or whose k-th write fails replies the errno of that
\* failure and no length, whatever the answers of the file object
WriteFailureReplied ==
    (last.op = "write" /\ ~LookupFailed) =>
        \A plan \in WritePlans :
            LET out   == RedoIo(plan)
                file  == last.pre.fhandles.list[last.args[1]]
            IN  /\ IsSome(plan.seek) =>
                      out.replies = <<ReplyError(Error_from_io(Unwrap(plan.seek)))>>
                /\ (~IsSome(plan.seek) /\ plan.fail_at # 1 /\ "WRITE" \notin file.flags) =>
                      out.replies = <<ReplyError(Error_from_io("Other"))>>
                /\ (~IsSome(plan.seek) /\ plan.fail_at > 0
                       /\ Len(out.reqs) >= plan.fail_at) =>
                      out.replies = <<ReplyError(Error_from_io(plan.kind))>>

\* C31 as stated: write replies the length of data only after every byte
\* of data was accepted by the remote file, contiguously from the absolute
\* position offset and in order, whatever the counts the single writes
\* return; when a seek or a write fails the reply is the mapped errno.
C31_WriteAsStated ==
    /\ WriteDone =>
          /\ last.ret = <<ReplyWritten(Len(last.args[3]))>>
          /\ InOrder
          /\ WrittenAt(last.args[2])
    /\ WriteFailureReplied

\* C31: as stated for a file opened without O_APPEND; the bytes of a write
\* on a file opened with O_APPEND are accepted contiguously and in order at
\* the end the file had, whatever the offset of the call.
C31_Write ==
    /\ WriteDone =>
          /\ last.ret = <<ReplyWritten(Len(last.args[3]))>>
          /\ InOrder
          /\ WrittenAt(IF "APPEND" \in last.pre.fhandles.list[last.args[1]].flags
                       THEN Len(BytesOf(last.args[1])) ELSE last.args[2])
    /\ WriteFailureReplied

\* two bytes were written at offset 0 by two writes of one byte each
C31_Witness ==
    /\ WriteDone
    /\ last.args[2] = 0
    /\ Len(last.args[3]) = 2
    /\ Len(last.reqs) = 2
    /\ "APPEND" \notin last.pre.fhandles.list[last.args[1]].flags

\* the handle of the call of the record was not in the handle table
HandleMissing == last.args[1] \notin DOMAIN last.pre.fhandles.list

\* the call replied errno e, sent nothing and left the handle table, the
\* files and the tree as they were
RefusedWith(e) ==
    /\ last.ret = <<ReplyError(e)>>
    /\ last.reqs = <<>>
    /\ fhandles = last.pre.fhandles
    /\ data = last.pre.data
    /\ remote = last.pre.remote

\* C32: lseek with a whence other than SEEK_SET, SEEK_CUR, SEEK_END replies
\* EINVAL, also when the handle is missing; lseek with a valid whence on a
\* handle that is not in the table replies EBADF; read and write on such a
\* handle reply EINVAL; none of these sends a remote request or changes the
\* handle table.
C32_HandleErrors ==
    /\ (last.op = "lseek" /\ last.args[3] \notin {0, 1, 2}) => RefusedWith(22)
    /\ (last.op = "lseek" /\ last.args[3] \in {0, 1, 2} /\ HandleMissing) =>
          RefusedWith(9)
    /\ (last.op \in {"read", "write"} /\ HandleMissing) => RefusedWith(22)

\* lseek was called with a whence that is none of the three and a handle
\* that is not registered, while another handle was
C32_Witness ==
    /\ last.op = "lseek"
    /\ last.args[3] = 3
    /\ HandleMissing
    /\ HashMap_len(last.pre.fhandles.list) = 1

\* the sum of 2^i over the bits i of 0..30 that keep(i) holds for; the
\* words are below 2^31
RECURSIVE SumBits(_, _)
SumBits(keep(_), i) ==
    IF i > 30 THEN 0
    ELSE (IF keep(i) THEN 2 ^ i ELSE 0) + SumBits(keep, i + 1)

\* mode & (~umask | S_IFMT): a bit of mode stays when it is a file type bit
\* (12..15) or is not in umask
MknodMode(mode, umask) ==
    LET keep(i) == BitSet(mode, i) /\ (i \in 12..15 \/ ~BitSet(umask, i))
    IN  SumBits(keep, 0)

\* mode & ~umask & 0o777: a bit of mode stays when it is a permission bit
\* (0..8) that is not in umask
MkdirMode(mode, umask) ==
    LET keep(i) == BitSet(mode, i) /\ i \in 0..8 /\ ~BitSet(umask, i)
    IN  SumBits(keep, 0)

\* the type bits of mode are those of a regular file: (mode >> 12) & 15 = 8
IsRegular(mode) == (mode \div 4096) % 16 = 8

\* modes of every file type with permission bits, setuid and sticky
ModeWords ==
    {t + p : t \in {0, 4096, 8192, 16384, 24576, 32768, 40960, 49152},
             p \in {0, 420, 493, 511, 1023, 2541}}

\* 0, 0o022, 0o077, 0o777, 0o7777 and a word with file type bits
UmaskWords == {0, 18, 63, 511, 4095, 61458}

\* mknod and mkdir on the root of a fresh mount, for every mode and umask:
\* the mode of the request that creates the file or the directory
ModesEverywhere ==
    \A mode \in ModeWords, umask \in UmaskWords :
        LET s     == Sshfs_new(RootText)
            empty == Tree(<<"", "", "", "">>)
            nod   == Sshfs_mknod(s, empty, FirstInode, <<"a">>, mode, umask, None, None)
            lost  == Sshfs_mknod(s, empty, FirstInode + 1, <<"a">>, mode, umask, None, None)
            dir   == Sshfs_mkdir(s, empty, FirstInode, <<"a">>, mode, umask, None, None)
        IN  /\ IF IsRegular(mode)
               THEN /\ nod.reqs[1][4] = MknodMode(mode, umask)
                    /\ nod.reqs[1][3] = "CREATE"
                    /\ nod.replies[1][1] = "entry"
               ELSE /\ nod = Out(s, empty, <<ReplyError(1)>>, <<>>)
                    /\ lost = Out(s, empty, <<ReplyError(1)>>, <<>>)
            /\ dir.reqs[1] = <<"mkdir", dir.reqs[1][2], MkdirMode(mode, umask)>>
            /\ dir.replies[1][1] = "entry"

\* C33: mknod with file type bits other than S_IFREG replies EPERM and
\* sends no remote request, also when the parent is not registered;
\* otherwise the file is created with mode & (~umask | S_IFMT); mkdir
\* creates the directory with mode & ~umask & 0o777.
C33_Modes ==
    /\ ModesEverywhere
    /\ (last.op = "mknod" /\ ~IsRegular(last.args[3])) =>
          /\ last.ret = <<ReplyError(1)>>
          /\ last.reqs = <<>>
          /\ inodes = last.pre.inodes
          /\ remote = last.pre.remote
    /\ (last.op = "mknod" /\ IsRegular(last.args[3]) /\ last.reqs # <<>>) =>
          /\ last.reqs[1][1] = "open_mode"
          /\ last.reqs[1][4] = MknodMode(last.args[3], last.args[4])
          /\ last.reqs[1][4] \in {33188, 33152}
    /\ (last.op = "mkdir" /\ last.reqs # <<>>) =>
          /\ last.reqs[1][1] = "mkdir"
          /\ last.reqs[1][3] = MkdirMode(last.args[3], last.args[4])
          /\ last.reqs[1][3] \in {493, 448}

\* mknod(S_IFREG | 0o644, umask 0o077) created a file with mode 0o100600
C33_Witness ==
    /\ last.op = "mknod"
    /\ last.args[3] = 33188
    /\ last.args[4] = 63
    /\ Len(last.reqs) = 3
    /\ last.reqs[1][4] = 33152
    /\ last.ret[1][1] = "entry"
    /\ Cardinality(DOMAIN remote) = Cardinality(DOMAIN last.pre.remote) + 1

\* a readdir call replied a list of entries
ReaddirDone ==
    /\ last.op = "readdir"
    /\ last.ret # <<>>
    /\ last.ret[1][1] = "dir"

\* what the server lists for the directory of the readdir of the record
Listed ==
    sftp_readdir(last.pre.remote,
                 Unwrap(Inodes_get_path(last.pre.inodes, last.args[1])), None).val

\* the entry at place k (from 1) of the list ".", "..", Listed, as readdir
\* emits it into table tab: the offset to go on from is k
EntryAt(tab, k) ==
    IF k <= 2
    THEN [ino |-> 1, offset |-> k, kind |-> "Directory",
          name |-> PathBuf_text(<<IF k = 1 THEN CurDir ELSE ParentDir>>)]
    ELSE LET f == Listed[k - 2]
         IN  [ino |-> Unwrap(Inodes_get_inode(tab, PathBuf_text(f.path))),
              offset |-> k, kind |-> f.kind, name |-> f.path[Len(f.path)]]

\* C34: readdir(ino, offset) emits the entries of the list ".", "..", the
\* remote entries in remote order, from list index offset on; the entry at
\* index k carries next_offset k + 1, "." and ".." carry inode 1 and type
\* Directory, emission stops when the reply buffer is full, and a readdir
\* called with the last next_offset emitted goes on with the next entry.
C34_Readdir ==
    ReaddirDone =>
        LET offset  == last.args[2]
            cap     == last.args[3]
            entries == last.ret[1][2]
            n       == Len(entries)
            total   == 2 + Len(Listed)
            left    == IF total > offset THEN total - offset ELSE 0
            next    == Sshfs_readdir(inodes, remote, last.args[1],
                                     entries[n].offset, cap, None)
        IN  /\ n = (IF cap < left THEN cap ELSE left)
            /\ \A j \in 1..n : entries[j] = EntryAt(inodes, offset + j)
            /\ (n > 0 /\ offset + n < total /\ next.replies[1][1] = "dir") =>
                  /\ next.replies[1][2] # <<>>
                  /\ next.replies[1][2][1] = EntryAt(next.inodes, offset + n + 1)

\* readdir from the start of a directory of two entries into a buffer that
\* takes three: ".", ".." and the first entry were emitted
C34_Witness ==
    /\ ReaddirDone
    /\ last.args[2] = 0
    /\ Len(Listed) = 2
    /\ Len(last.ret[1][2]) = 3
    /\ last.ret[1][2][3].offset = 3

-----------------------------------------------------------------------------
(* Claims about the inode table across callbacks                           *)

\* the entries other than "." and ".." of a reply of readdir
RealEntries(reply) ==
    {e \in {reply[2][j] : j \in 1..Len(reply[2])} : e.offset > 2}

\* readdir of directory d from list index offset on, from table tab on the
\* tree now, into a buffer that takes every entry
ReadFrom(tab, d, offset) == Sshfs_readdir(tab, remote, d, offset, 5, None)

\* lookup(d, n) and getattr of the inode it reports, on table tab, report
\* inode i
LookupAgrees(tab, d, n, i) ==
    LET look == Sshfs_lookup(tab, remote, d, n, None)
        attr == Sshfs_getattr(look.inodes, remote, i, None)
    IN  /\ look.replies[1][1] = "entry"
        /\ look.replies[1][2].ino = i
        /\ attr.replies[1][1] = "attr"
        /\ attr.replies[1][2].ino = i
        /\ attr.inodes = look.inodes

\* a readdir of d on table tab that replies a list gives n inode i where it
\* lists n, and replies the same when it is called again
ReaddirAgrees(tab, d, n, i, offset) ==
    LET once  == ReadFrom(tab, d, offset)
        twice == ReadFrom(once.inodes, d, offset)
    IN  once.replies[1][1] = "dir" =>
           /\ \A e \in RealEntries(once.replies[1]) : e.name = n => e.ino = i
           /\ twice.replies = once.replies
           /\ twice.inodes = once.inodes

\* C35: the inode readdir reports for the entry named n of directory d is
\* the inode lookup(d, n) and getattr report for it, whichever is called
\* first and however often, while the entry is neither removed nor renamed.
C35_SameInode ==
    /\ ReaddirDone =>
          \A e \in RealEntries(last.ret[1]) :
              LET d   == last.args[1]
                  was == Inodes_get_inode(last.pre.inodes,
                             PathBuf_text(Listed[e.offset - 2].path))
                  look == Sshfs_lookup(inodes, remote, d, e.name, None)
              IN  /\ IsSome(was) => e.ino = Unwrap(was)
                  /\ LookupAgrees(inodes, d, e.name, e.ino)
                  /\ ReaddirAgrees(look.inodes, d, e.name, e.ino, e.offset - 1)
                  /\ ReadFrom(inodes, d, e.offset - 1).replies[1][2][1] = e
    /\ (last.op = "lookup" /\ last.ret[1][1] = "entry") =>
          LET d == last.args[1]
              n == last.args[2]
              i == last.ret[1][2].ino
          IN  /\ LookupAgrees(inodes, d, n, i)
              /\ \A offset \in 0..3 :
                    /\ ReaddirAgrees(inodes, d, n, i, offset)
                    /\ LookupAgrees(ReadFrom(inodes, d, offset).inodes, d, n, i)

\* readdir listed an entry whose inode lookup had issued before, and one
\* that it registered itself
C35_Witness ==
    /\ ReaddirDone
    /\ \E e \in RealEntries(last.ret[1]) :
          e.ino \in DOMAIN last.pre.inodes.list.left
    /\ \E e \in RealEntries(last.ret[1]) :
          e.ino \notin DOMAIN last.pre.inodes.list.left

\* the call of the record replied an errno
ErrnoReplied == last # NoCall /\ last.ret # <<>> /\ last.ret[1][1] = "error"

\* the handle table holds the records it held before the call, under the
\* same handles; the position of an open file is not part of the table
SameHandles ==
    LET before == last.pre.fhandles
    IN  /\ fhandles.next_handle = before.next_handle
        /\ DOMAIN fhandles.list = DOMAIN before.list
        /\ \A fh \in DOMAIN before.list :
              /\ fhandles.list[fh].path = before.list[fh].path
              /\ fhandles.list[fh].flags = before.list[fh].flags

\* C36 as stated: a callback that replies an errno leaves the inode table
\* and the handle table as they were before it started.
C36_FailureKeepsTablesAsStated ==
    ErrnoReplied => (inodes = last.pre.inodes /\ SameHandles)

\* readdir replied EBADF for an entry whose file type has no counterpart:
\* the entries it went through before are registered, the rest of the table
\* is as it was
ReaddirRegistered ==
    LET before == last.pre.inodes.list.left
        after  == inodes.list.left
    IN  /\ last.op = "readdir"
        /\ last.ret = <<ReplyError(9)>>
        /\ \E k \in 1..Len(Listed) : Listed[k].kind = "Other"
        /\ \A i \in DOMAIN before : i \in DOMAIN after /\ after[i] = before[i]
        /\ \A i \in (DOMAIN after) \ (DOMAIN before) :
              /\ i >= last.pre.inodes.next_inode
              /\ \E k \in 1..Len(Listed) :
                    /\ after[i] = Listed[k].path
                    /\ k + 2 > last.args[2]
                    /\ \A j \in 1..(k - 1) :
                          j + 2 > last.args[2] => Listed[j].kind # "Other"

\* rename had removed the destination when the remote rename failed: the
\* binding of the destination is dropped, the rest of the table is as it was
RenameUnbound ==
    /\ last.op = "rename"
    /\ Len(last.reqs) = 3
    /\ Removals(last.reqs) = {2}
    /\ inodes = Inodes_del_inode_with_path(last.pre.inodes, PathBuf_text(RenameNew)).s

\* C36: a callback that replies an errno leaves the handle table as it was,
\* and the inode table too, but for two cases: a readdir that replies EBADF
\* has registered the entries it went through, and a rename whose remote
\* rename fails after the destination was removed has dropped the binding
\* of the destination.
C36_FailureKeepsTables ==
    ErrnoReplied =>
        /\ SameHandles
        /\ inodes = last.pre.inodes \/ ReaddirRegistered \/ RenameUnbound

\* a lookup of an entry that is registered replied an errno because the
\* lstat failed, with a file open
C36_Witness ==
    /\ ErrnoReplied
    /\ last.op = "lookup"
    /\ Len(last.reqs) = 1
    /\ IsSome(Inodes_get_inode(last.pre.inodes,
           PathBuf_text(PathBuf_push(Unwrap(Inodes_get_path(last.pre.inodes, last.args[1])),
                                     last.args[2]))))
    /\ HashMap_len(last.pre.fhandles.list) = 1

\* C37: when rename replies an error the remote tree is as it was before
\* the call; what existed at new_path still exists there, also when the
\* remote rename fails after the destination was removed, with
\* RENAME_EXCHANGE, and when old_path and new_path are the same path.
C37_RenameFailureKeepsTree ==
    (last.op = "rename" /\ ErrnoReplied) => remote = last.pre.remote

\* C38: with the remote changed through the callbacks only, every path
\* bound in the inode table names an object that exists on the remote; in
\* particular, after a directory is renamed the inodes issued for entries
\* beneath it are not left bound to paths under its old name.
C38_BoundPathsExist ==
    \A i \in DOMAIN inodes.list.left : inodes.list.left[i] \in DOMAIN remote

-----------------------------------------------------------------------------
(* Claims about the end of the loops, checked under SpecIoLive             *)

\* C39: every read and every write callback replies in the end, whatever
\* the remote file object answers: the loop of write ends after finitely
\* many remote writes, also when a write reports 0 bytes written, and the
\* loop of read ends after finitely many remote reads.
C39_LoopsEnd ==
    (last.op \in {"read", "write"}) ~> (last.ret # <<>>)

-----------------------------------------------------------------------------
(* Claims about release next to the callbacks of a handle, checked under    *)
(* SpecLock                                                                 *)

\* the remote file behind file object fh has not been closed
StillOpen(fh) == fh \in DOMAIN locks.file

\* thread t holds a clone of the record of handle fh
HoldsRecord(t, fh) == thr[t].file = Some(fh)

\* every callback that holds a record works on a file that is still open
HoldersOpen ==
    \A t \in Threads : IsSome(thr[t].file) => StillOpen(Unwrap(thr[t].file))

\* a step that closes a file leaves no holder of its record and no entry
\* of its handle, and the thread that closed it was the only holder
ClosedByLast ==
    \A fh \in DOMAIN locks.file :
        ~(fh \in DOMAIN locks.file') =>
            /\ ~IsSome(Fhandles_get_file(fhandles', fh))
            /\ \A t \in Threads : thr'[t].file # Some(fh)
            /\ Cardinality({t \in Threads : thr[t].pc \in {"closing", "dropping"}
                                             /\ thr'[t].pc # thr[t].pc}) = 1

\* get_file of a handle that is not in the list ends the callback with its
\* error and without a record
LateLookupMisses ==
    \A t \in Threads :
        (/\ thr[t].pc = "in"
         /\ Kind(t) = "get"
         /\ ~IsSome(Fhandles_get_file(fhandles, thr[t].arg))
         /\ thr'[t] # thr[t]) =>
            (thr'[t].pc = "return" /\ thr'[t].file = None)

\* C40: a release that interleaves with a read, write or lseek of the same
\* handle does not close the file under it: a callback that holds the record
\* works on an open file, the file is closed only by the last holder of the
\* record, and a lookup after the removal misses the handle.
C40_ReleaseKeepsFile ==
    []HoldersOpen /\ [][ClosedByLast /\ LateLookupMisses]_vars

\* a read, write or lseek is at its seek or I/O on the open file of a handle
\* that release has removed, and a read or write has missed that handle
C40_Witness ==
    \E t \in Threads, fh \in HandleNumbers :
        /\ HoldsRecord(t, fh)
        /\ OnFile(t)
        /\ StillOpen(fh)
        /\ ~IsSome(Fhandles_get_file(fhandles, fh))
        /\ \E u \in Threads \ {t} :
              /\ thr[u].op \in {"read", "write"}
              /\ thr[u].arg = fh
              /\ thr[u].pc = "return"
              /\ thr[u].file = None

====
